---- MODULE Spec2Model ----
(***************************************************************************)
(* A model of the document-understanding subsystem of the filament         *)
(* inventory backend: the label pipeline of backend/ocr_service.py         *)
(* (LabelParser) and the invoice scanners of backend/invoice_parser.py     *)
(* (InvoiceParser).                                                        *)
(*                                                                         *)
(* Texts are TLA+ strings, read character by character with Len, SubSeq    *)
(* and \o exactly as the Python code reads its str values.  Every regular  *)
(* expression of the source is an operator that matches the same language. *)
(*                                                                         *)
(* Characters outside ASCII are written with reserved ASCII symbols that   *)
(* occur in no other text of the model:                                    *)
(*    e-acute (as in "hife" with an accent)  is written  ]                 *)
(*    a CJK glyph is written as two symbols, ^ or ~ followed by one of     *)
(*    | @ ! ? ; ' < > = & * %   (the table is at CHINESE_COLOR_MAP).       *)
(* Decimal numbers (diameters, prices) are kept exactly, as a numerator    *)
(* over a power of ten; a diameter in a result is in hundredths of a       *)
(* millimetre (175 is 1.75 mm).                                            *)
(***************************************************************************)
EXTENDS Integers, Sequences, FiniteSets, TLC

\* ---------------------------------------------------------------- strings

\* Python's None in a string-valued field.
NULL == "<null>"

\* The character of s at position i (1-based), "" beyond the ends.
CharAt(s, i) == IF i >= 1 /\ i <= Len(s) THEN SubSeq(s, i, i) ELSE ""

UpperLetters == "ABCDEFGHIJKLMNOPQRSTUVWXYZ"
LowerLetters == "abcdefghijklmnopqrstuvwxyz"
Digits == "0123456789"

\* c (one character) occurs in the string set.
InChars(c, set) == c # "" /\ \E k \in 1..Len(set) : SubSeq(set, k, k) = c

IsUpper(c) == InChars(c, UpperLetters)
IsLower(c) == InChars(c, LowerLetters)
IsLetter(c) == IsUpper(c) \/ IsLower(c)
IsDigit(c) == InChars(c, Digits)
\* \s of the re module, over the white space the model's texts can hold.
IsSpace(c) == c = " " \/ c = "\n" \/ c = "\t"
\* The symbols that write non-ASCII letters (all of them \w for Python).
GlyphSymbols == "]^~|@!?;'<>=&*%"
\* \w of the re module.
IsWordChar(c) == IsLetter(c) \/ IsDigit(c) \/ c = "_" \/ InChars(c, GlyphSymbols)

LowerChar(c) ==
    IF IsUpper(c)
    THEN LET k == CHOOSE k \in 1..26 : SubSeq(UpperLetters, k, k) = c
         IN  SubSeq(LowerLetters, k, k)
    ELSE c

UpperChar(c) ==
    IF IsLower(c)
    THEN LET k == CHOOSE k \in 1..26 : SubSeq(LowerLetters, k, k) = c
         IN  SubSeq(UpperLetters, k, k)
    ELSE c

RECURSIVE Lower(_)
\* str.lower()
Lower(s) == IF s = "" THEN "" ELSE LowerChar(Head(s)) \o Lower(Tail(s))

RECURSIVE Upper(_)
\* str.upper()
Upper(s) == IF s = "" THEN "" ELSE UpperChar(Head(s)) \o Upper(Tail(s))

\* s occurs in t at position i.
LitAt(t, i, s) == i >= 1 /\ i + Len(s) - 1 <= Len(t) /\ SubSeq(t, i, i + Len(s) - 1) = s

\* Python's test (s in t).
Contains(t, s) == \E i \in 1..(Len(t) - Len(s) + 1) : SubSeq(t, i, i + Len(s) - 1) = s

\* str.startswith
StartsWith(t, s) == LitAt(t, 1, s)

\* str.startswith with a tuple of prefixes.
StartsWithAny(t, prefixes) == \E k \in 1..Len(prefixes) : StartsWith(t, prefixes[k])

RECURSIVE RemoveChars(_, _)
\* The chain of str.replace(c, "") for every character c of chars.
RemoveChars(s, chars) ==
    IF s = "" THEN ""
    ELSE (IF InChars(Head(s), chars) THEN "" ELSE Head(s)) \o RemoveChars(Tail(s), chars)

RECURSIVE ReplaceChar(_, _, _)
\* str.replace(a, b) for one-character a and b.
ReplaceChar(s, a, b) ==
    IF s = "" THEN ""
    ELSE (IF Head(s) = a THEN b ELSE Head(s)) \o ReplaceChar(Tail(s), a, b)

RECURSIVE LStrip(_)
LStrip(s) == IF s # "" /\ IsSpace(Head(s)) THEN LStrip(Tail(s)) ELSE s

RECURSIVE RStrip(_)
RStrip(s) ==
    IF s # "" /\ IsSpace(CharAt(s, Len(s))) THEN RStrip(SubSeq(s, 1, Len(s) - 1)) ELSE s

\* str.strip()
Strip(s) == RStrip(LStrip(s))

RECURSIVE SquashSpaces(_)
\* " ".join(s.split()) on a stripped string: every run of white space becomes
\* one blank.
SquashSpaces(s) ==
    IF s = "" THEN ""
    ELSE IF IsSpace(Head(s))
         THEN " " \o SquashSpaces(LStrip(s))
         ELSE Head(s) \o SquashSpaces(Tail(s))

\* " ".join(s.split())
NormalizeSpaces(s) == SquashSpaces(Strip(s))

\* The position after the longest run of white space that starts at i.
RECURSIVE SkipSpaces(_, _)
SkipSpaces(t, i) == IF IsSpace(CharAt(t, i)) THEN SkipSpaces(t, i + 1) ELSE i

\* The position after the longest run of letters that starts at i.
RECURSIVE SkipLetters(_, _)
SkipLetters(t, i) == IF IsLetter(CharAt(t, i)) THEN SkipLetters(t, i + 1) ELSE i

\* The position after the longest run of digits that starts at i.
RECURSIVE SkipDigits(_, _)
SkipDigits(t, i) == IF IsDigit(CharAt(t, i)) THEN SkipDigits(t, i + 1) ELSE i

\* The smallest element of a non-empty set of integers.
Min(S) == CHOOSE x \in S : \A y \in S : x <= y

\* The first position of s in t, 0 when s does not occur.
Find(t, s) ==
    LET hits == {i \in 1..(Len(t) - Len(s) + 1) : SubSeq(t, i, i + Len(s) - 1) = s}
    IN  IF hits = {} THEN 0 ELSE Min(hits)

\* The first alternative (by its index in alts) that occurs in t at position i, 0
\* when none does: the choice a regex alternation (a|b|c) of literals makes.
AltAt(t, i, alts) ==
    LET hits == {k \in 1..Len(alts) : LitAt(t, i, alts[k])}
    IN  IF hits = {} THEN 0 ELSE Min(hits)

\* str.title() of a run of letters.
Title(s) == IF s = "" THEN "" ELSE UpperChar(Head(s)) \o Lower(Tail(s))

RECURSIVE JoinWords(_)
\* " ".join(words)
JoinWords(words) ==
    IF Len(words) = 0 THEN ""
    ELSE IF Len(words) = 1 THEN words[1]
    ELSE words[1] \o " " \o JoinWords(Tail(words))

\* ------------------------------------------------------- exact decimals

DigitVal(c) == (CHOOSE k \in 1..10 : SubSeq(Digits, k, k) = c) - 1

RECURSIVE DigitsValue(_, _)
\* int() of a run of digits, acc being the value of the digits read so far.
DigitsValue(s, acc) ==
    IF s = "" THEN acc ELSE DigitsValue(Tail(s), 10 * acc + DigitVal(Head(s)))

RECURSIVE Pow10(_)
Pow10(n) == IF n <= 0 THEN 1 ELSE 10 * Pow10(n - 1)

\* The number of dots in s.
RECURSIVE CountDots(_)
CountDots(s) == IF s = "" THEN 0 ELSE (IF Head(s) = "." THEN 1 ELSE 0) + CountDots(Tail(s))

\* float(s) for s made of digits and dots: the value num/den, or ok = FALSE where
\* Python raises ValueError (no digit, or more than one dot).
ParseFloat(s) ==
    LET dot == Find(s, ".")
        whole == IF dot = 0 THEN s ELSE SubSeq(s, 1, dot - 1)
        frac == IF dot = 0 THEN "" ELSE SubSeq(s, dot + 1, Len(s))
    IN  IF CountDots(s) > 1 \/ Len(whole) + Len(frac) = 0
        THEN [ok |-> FALSE, num |-> 0, den |-> 1]
        ELSE [ok |-> TRUE, num |-> DigitsValue(whole \o frac, 0), den |-> Pow10(Len(frac))]

Abs(x) == IF x < 0 THEN -x ELSE x

\* ------------------------------------------------- LabelParser: the tables

\* CHINESE_COLOR_MAP, in the order of the dict.  The glyphs are written
\*   hei ^|  bai ^@  hong ^!  lan ^?  lv ^;  huang ^'  cheng ^<  zi ^>  hui ^=
\*   yin ^&  jin ^*  fen ^%  zong ~|  zi(self) ~@  ran ~!  tou ~?  ming ~;
\*   qing ~'  yang ~<  se (colour) ~>  hao ~=  mi ~&
CHINESE_COLOR_MAP ==
    << <<"^|~>", "Black">>, <<"^@~>", "White">>, <<"^!~>", "Red">>, <<"^?~>", "Blue">>,
       <<"^;~>", "Green">>, <<"^'~>", "Yellow">>, <<"^<~>", "Orange">>, <<"^>~>", "Purple">>,
       <<"^=~>", "Grey">>, <<"^&~>", "Silver">>, <<"^*~>", "Gold">>, <<"^%~>", "Pink">>,
       <<"~|~>", "Brown">>, <<"~@~!~>", "Natural">>, <<"~?~;", "Transparent">>,
       <<"~'~>", "Cyan">>, <<"~<^!~>", "Magenta">> >>

\* The unit "haomi" (millimetre) of the bambu and jayo diameter patterns.
HaoMi == "~=~&"

\* One alternative of a material pattern: head, then what may separate it from
\* tail ("" nothing and no tail, "+" is [\s]+, "?" is [\s-]?), then tail.
Alt(head, sep, tail) == [head |-> head, sep |-> sep, tail |-> tail]

\* BRAND_PATTERNS[brand]["material"], upper-cased (the search ignores case).
MaterialPattern(brand) ==
    CASE brand = "esun" ->
           <<Alt("PLA+", "", ""), Alt("PLA", "", ""), Alt("ABS", "", ""),
             Alt("PETG", "", ""), Alt("TPU", "", "")>>
      [] brand = "sunlu" ->
           <<Alt("SILK", "+", "PLA"), Alt("PLA+", "", ""), Alt("PLA", "", ""),
             Alt("ABS", "", ""), Alt("PETG", "", ""), Alt("TPU", "", "")>>
      [] brand = "bambu" ->
           <<Alt("PETG", "?", "HF"), Alt("PETG", "", ""), Alt("PLA", "?", "BASIC"),
             Alt("PLA", "?", "MATTE"), Alt("PLA", "?", "SILK"), Alt("PLA", "", ""),
             Alt("ABS", "", ""), Alt("TPU", "", ""), Alt("ASA", "", "")>>
      [] OTHER ->
           <<Alt("PETG", "", ""), Alt("PLA+", "", ""), Alt("PLA", "", ""),
             Alt("ABS", "", ""), Alt("TPU", "", "")>>

\* The named colours of BRAND_PATTERNS[brand]["color"], lower-cased, in order;
\* every pattern ends with the alternative [A-Z][a-z]+.
ColorPatternNames(brand) ==
    CASE brand = "esun" ->
           <<"white", "black", "red", "blue", "green", "yellow", "orange", "purple",
             "grey", "gray", "transparent", "natural", "silver", "gold", "pink",
             "brown", "cyan", "magenta">>
      [] brand = "sunlu" ->
           <<"white", "black", "red", "blue", "green", "yellow", "orange", "purple",
             "grey", "gray", "silver", "gold", "pink", "brown", "cyan", "magenta">>
      [] brand = "bambu" ->
           <<"black", "white", "red", "blue", "green", "yellow", "orange", "purple",
             "grey", "gray", "natural", "transparent", "silver", "gold", "pink",
             "brown", "cyan", "magenta">>
      [] OTHER ->
           <<"black", "white", "red", "blue", "green", "yellow", "orange", "purple",
             "grey", "gray", "natural", "transparent", "silver", "gold", "pink",
             "brown", "cyan", "magenta", "olive", "olve">>

\* The units of BRAND_PATTERNS[brand]["diameter"]: mm, and for bambu and jayo the
\* CJK unit as well.
DiameterUnits(brand) ==
    IF brand \in {"bambu", "jayo"} THEN <<"mm", HaoMi>> ELSE <<"mm">>

\* The three nominal diameters every diameter pattern names, with their values
\* in hundredths of a millimetre.
DiameterTexts == <<"1.75", "2.85", "3.0">>
DiameterValues == <<175, 285, 300>>

\* A result's diameter_mm when no diameter was found (None).
NoDiameter == 0

\* brand_names of parse_label.
BrandName(brand) ==
    CASE brand = "esun" -> "eSUN"
      [] brand = "sunlu" -> "Sunlu"
      [] brand = "bambu" -> "Bambu Lab"
      [] OTHER -> "JAYO"

\* --------------------------------------------- LabelParser.detect_brand

\* detect_brand: "bambu", "esun", "jayo", "sunlu" or NULL, in that priority.
detect_brand(text) ==
    IF text = "" THEN NULL
    ELSE
    LET text_lower == Lower(text)
        text_no_space == RemoveChars(text_lower, " \n-_")
        bambu_indicators ==
            \/ Contains(text_no_space, "bambu")
            \/ Contains(text_no_space, "bambulab")
            \/ Contains(text_lower, "bambu lab")
            \/ Contains(text_lower, "bam bu")
            \/ /\ Contains(text_lower, "hif]") \/ Contains(text_lower, "hife")
               /\ Contains(text_lower, "230") \/ Contains(text_lower, "260")
               /\ Contains(text_lower, "made in china") \/ Contains(text_lower, "made in")
            \/ /\ Contains(text_lower, "230") /\ Contains(text_lower, "260")
               /\ \/ Contains(text_lower, "1.75")
                  \/ Contains(text_lower, "1,75")
                  \/ Contains(text_lower, "diameter")
               /\ Contains(text_lower, "made in china") \/ Contains(text_lower, "filament")
    IN  IF bambu_indicators THEN "bambu"
        ELSE IF \/ Contains(text_no_space, "esun") \/ Contains(text_lower, "e-sun")
                \/ Contains(text_lower, "e sun") \/ Contains(text_lower, "e.sun")
             THEN "esun"
        ELSE IF \/ Contains(text_no_space, "jayo") \/ Contains(text_lower, "jayo")
                \/ Contains(text_no_space, "jayopetg") \/ Contains(text_lower, "ty jayo")
             THEN "jayo"
        ELSE IF \/ Contains(text_no_space, "sunlu") \/ Contains(text_lower, "sun lu")
                \/ Contains(text_no_space, "sunluplasd")
             THEN "sunlu"
        ELSE NULL

\* ----------------------------------------------- parse_label: material

\* Where alternative a of a material pattern ends when it matches T at i (the
\* position after its last character), 0 when it does not match.
AltEnd(T, i, a) ==
    LET p == i + Len(a.head)
    IN  IF ~LitAt(T, i, a.head) THEN 0
        ELSE IF a.sep = "" THEN p
        ELSE IF a.sep = "+"
             THEN LET q == SkipSpaces(T, p)
                  IN  IF q > p /\ LitAt(T, q, a.tail) THEN q + Len(a.tail) ELSE 0
        ELSE IF (IsSpace(CharAt(T, p)) \/ CharAt(T, p) = "-") /\ LitAt(T, p + 1, a.tail)
             THEN p + 1 + Len(a.tail)
        ELSE IF LitAt(T, p, a.tail) THEN p + Len(a.tail)
        ELSE 0

\* re.search(pattern, ...).group(1) for a pattern of alternatives: the text matched
\* at the leftmost position where an alternative matches, by the first alternative
\* that matches there; NULL when there is no match.
SearchAlts(T, pattern) ==
    LET hits == {i \in 1..Len(T) : \E k \in 1..Len(pattern) : AltEnd(T, i, pattern[k]) # 0}
    IN  IF hits = {} THEN NULL
        ELSE LET i == Min(hits)
                 k == Min({k \in 1..Len(pattern) : AltEnd(T, i, pattern[k]) # 0})
             IN  SubSeq(T, i, AltEnd(T, i, pattern[k]) - 1)

\* re.search(r'(?:Filament Code|Code)[\s:]*(\d+)', text, re.IGNORECASE): the
\* digits of group 1, NULL without a match.
FilamentCode(text) ==
    LET t == Lower(text)
        After(i) == IF LitAt(t, i, "filament code") THEN i + 13
                    ELSE IF LitAt(t, i, "code") THEN i + 4 ELSE 0
        RECURSIVE SkipSep(_)
        SkipSep(j) == IF IsSpace(CharAt(t, j)) \/ CharAt(t, j) = ":" THEN SkipSep(j + 1) ELSE j
        hits == {i \in 1..Len(t) : After(i) # 0 /\ IsDigit(CharAt(t, SkipSep(After(i))))}
    IN  IF hits = {} THEN NULL
        ELSE LET d == SkipSep(After(Min(hits)))
             IN  SubSeq(t, d, SkipDigits(t, d) - 1)

\* The material of a label text of the given brand.
ExtractMaterial(brand, text) ==
    LET material_match == SearchAlts(Upper(text), MaterialPattern(brand))
        text_upper == Upper(text)
        code == IF brand = "bambu" THEN FilamentCode(text) ELSE NULL
        byCode == IF code = NULL THEN NULL
                  ELSE IF StartsWith(code, "1") THEN "PLA"
                  ELSE IF StartsWith(code, "2") THEN "PETG"
                  ELSE IF StartsWith(code, "5") THEN "TPU"
                  ELSE IF StartsWith(code, "3") THEN "ABS"
                  ELSE NULL
        byToken ==
            IF byCode # NULL THEN byCode
            ELSE IF \/ Contains(text_upper, "PETG HF") \/ Contains(text_upper, "PETGHF")
                    \/ Contains(text_upper, "PETG-HF")
                 THEN "PETG HF"
            ELSE IF \/ Contains(text_upper, "PLA+") \/ Contains(text_upper, "PLA +")
                    \/ Contains(text_upper, "PLA PLUS")
                 THEN "PLA+"
            ELSE IF Contains(text_upper, "PETG") THEN "PETG"
            ELSE IF Contains(text_upper, "PLA") THEN "PLA"
            ELSE IF Contains(text_upper, "ABS") THEN "ABS"
            ELSE IF Contains(text_upper, "TPU") THEN "TPU"
            ELSE NULL
    IN  IF material_match # NULL
        THEN NormalizeSpaces(ReplaceChar(material_match, "-", " "))
        ELSE IF brand = "bambu" /\ byToken = NULL THEN "PLA"
        ELSE byToken

\* -------------------------------------------------- parse_label: colour

\* color_corrections, in the order of the dict: an OCR misreading and the colour
\* it stands for.
color_corrections ==
    << <<"yelow", "Yellow">>, <<"yellw", "Yellow">>, <<"yello", "Yellow">>,
       <<"olve", "Olive">>, <<"oliv", "Olive">>, <<"gren", "Green">>,
       <<"grene", "Green">>, <<"blak", "Black">>, <<"whit", "White">>,
       <<"whte", "White">> >>

common_colors ==
    <<"White", "Black", "Red", "Blue", "Green", "Yellow", "Orange", "Purple", "Grey",
      "Gray", "Silver", "Gold", "Pink", "Brown", "Natural", "Transparent", "Cyan",
      "Magenta", "Olive">>

\* The value of the first pair of an ordered dict whose key occurs in t, NULL when
\* no key does.
FirstKeyIn(map, t) ==
    LET hits == {k \in 1..Len(map) : Contains(t, map[k][1])}
    IN  IF hits = {} THEN NULL ELSE map[Min(hits)][2]

\* re.search(r'\b' + word + r'\b', ...) on lower-cased text and word.
WholeWordIn(t, word) ==
    \E i \in 1..(Len(t) - Len(word) + 1) :
        /\ SubSeq(t, i, i + Len(word) - 1) = word
        /\ ~IsWordChar(CharAt(t, i - 1))
        /\ ~IsWordChar(CharAt(t, i + Len(word)))

\* The first of common_colors that occurs in the text as a whole word.
CommonColorIn(text) ==
    LET t == Lower(text)
        hits == {k \in 1..Len(common_colors) : WholeWordIn(t, Lower(common_colors[k]))}
    IN  IF hits = {} THEN NULL ELSE common_colors[Min(hits)]

\* re.search(r'(?:With\s+Spool|Spool)[\s:]+([A-Z][a-z]+)', text, re.IGNORECASE):
\* group 1 as the text spells it, NULL without a match.
SpoolColorMatch(text) ==
    LET t == Lower(text)
        HeadEnd(i) ==
            IF LitAt(t, i, "with") /\ SkipSpaces(t, i + 4) > i + 4
               /\ LitAt(t, SkipSpaces(t, i + 4), "spool")
            THEN SkipSpaces(t, i + 4) + 5
            ELSE IF LitAt(t, i, "spool") THEN i + 5 ELSE 0
        RECURSIVE SkipSep(_)
        SkipSep(j) == IF IsSpace(CharAt(t, j)) \/ CharAt(t, j) = ":" THEN SkipSep(j + 1) ELSE j
        GroupStart(i) ==
            LET e == HeadEnd(i)
                q == SkipSep(e)
            IN  IF e # 0 /\ q > e /\ IsLetter(CharAt(t, q)) /\ IsLetter(CharAt(t, q + 1))
                THEN q ELSE 0
        hits == {i \in 1..Len(t) : GroupStart(i) # 0}
    IN  IF hits = {} THEN NULL
        ELSE LET q == GroupStart(Min(hits))
             IN  SubSeq(text, q, SkipLetters(text, q) - 1)

\* potential_color in common_colors
InCommonColors(c) == \E k \in 1..Len(common_colors) : common_colors[k] = c

\* re.search(patterns["color"], text, re.IGNORECASE).group(1): the colour pattern
\* of the brand matches wherever two letters follow each other (each named colour
\* has three letters or more); eSUN's pattern may first consume "Printers, " or
\* ", ".  At the leftmost match the group is the first named colour spelled
\* there, or else the whole run of letters.  NULL without a match.
BrandColorMatch(brand, text) ==
    LET t == Lower(text)
        GroupAt(j) == IsLetter(CharAt(t, j)) /\ IsLetter(CharAt(t, j + 1))
        PrefixEnd(i) ==
            IF brand # "esun" THEN 0
            ELSE IF LitAt(t, i, "printers")
                 THEN LET p == IF CharAt(t, i + 8) = "," THEN i + 9 ELSE i + 8
                          q == SkipSpaces(t, p)
                      IN  IF q > p THEN q ELSE 0
            ELSE IF LitAt(t, i, ",")
                 THEN LET q == SkipSpaces(t, i + 1) IN IF q > i + 1 THEN q ELSE 0
            ELSE 0
        GroupStart(i) ==
            IF PrefixEnd(i) # 0 /\ GroupAt(PrefixEnd(i)) THEN PrefixEnd(i)
            ELSE IF GroupAt(i) THEN i
            ELSE 0
        hits == {i \in 1..Len(t) : GroupStart(i) # 0}
    IN  IF hits = {} THEN NULL
        ELSE LET j == GroupStart(Min(hits))
                 k == AltAt(t, j, ColorPatternNames(brand))
             IN  IF k # 0
                 THEN SubSeq(text, j, j + Len(ColorPatternNames(brand)[k]) - 1)
                 ELSE SubSeq(text, j, SkipLetters(text, j) - 1)

\* The two invalid_patterns: a code of one to three capitals or digits, and a
\* candidate that starts with a brand or material name.
IsInvalidColor(c) ==
    \/ /\ Len(c) >= 1 /\ Len(c) <= 3
       /\ \A k \in 1..Len(c) : IsUpper(CharAt(c, k)) \/ IsDigit(CharAt(c, k))
    \/ StartsWithAny(Lower(c),
         <<"esun", "sunlu", "bambu", "pla", "petg", "abs", "tpu", "filament">>)

\* The third colour tier: the brand pattern's candidate, title-cased, when it
\* passes the filter and is longer than three characters.
BrandColor(brand, text) ==
    LET m == BrandColorMatch(brand, text)
        color_candidate == IF m = NULL THEN "" ELSE Strip(m)
    IN  IF m # NULL /\ ~IsInvalidColor(color_candidate) /\ Len(color_candidate) > 3
        THEN Title(color_candidate)
        ELSE NULL

\* The colour of a label text of the given brand; colorMap is CHINESE_COLOR_MAP as
\* the class holds it at the time of the call.
ExtractColor(brand, text, colorMap) ==
    LET chinese == IF brand = "bambu" THEN FirstKeyIn(colorMap, text) ELSE NULL
        misread == FirstKeyIn(color_corrections, Lower(text))
        common == CommonColorIn(text)
        spool == IF brand = "bambu" THEN SpoolColorMatch(text) ELSE NULL
    IN  IF chinese # NULL THEN chinese
        ELSE IF misread # NULL THEN misread
        ELSE IF common # NULL THEN common
        ELSE IF spool # NULL /\ InCommonColors(spool) THEN spool
        ELSE BrandColor(brand, text)

\* ------------------------------------------------ parse_label: diameter

\* The value (hundredths of a millimetre) of a  (1\.75|2\.85|3\.0)<ws>unit  match of
\* t at position i, 0 when there is none; <ws> is [\s]? (anyspace FALSE) or [\s]*.
DiameterAt(t, i, units, anyspace) ==
    LET k == AltAt(t, i, DiameterTexts)
        p == i + Len(DiameterTexts[k])
        UnitAt(q) == \E u \in 1..Len(units) : LitAt(t, q, units[u])
    IN  IF k = 0 THEN 0
        ELSE IF anyspace
             THEN IF UnitAt(SkipSpaces(t, p)) THEN DiameterValues[k] ELSE 0
        ELSE IF UnitAt(p) \/ (IsSpace(CharAt(t, p)) /\ UnitAt(p + 1))
             THEN DiameterValues[k]
        ELSE 0

\* A faulty search that takes the rightmost such match of t.
DiameterSearchLast(t, units, anyspace) ==
    LET hits == {i \in 1..Len(t) : DiameterAt(t, i, units, anyspace) # 0}
    IN  IF hits = {} THEN 0
        ELSE DiameterAt(t, CHOOSE i \in hits : \A j \in hits : j <= i, units, anyspace)

\* The value at the leftmost such match in t, 0 when there is none.
DiameterSearch(t, units, anyspace) ==
    LET hits == {i \in 1..Len(t) : DiameterAt(t, i, units, anyspace) # 0}
    IN  IF hits = {} THEN 0 ELSE DiameterAt(t, Min(hits), units, anyspace)

\* re.search(r'[{\[]?\s*NN\s*mm|1NN\s*mm|N\s*\.\s*NN\s*mm', text, re.IGNORECASE) for
\* the misread diameters: lead is "1" with tail "75", or "2" with "85".
MisreadDiameter(text, lead, tail) ==
    LET t == Lower(text)
        Unit(j) == LitAt(t, SkipSpaces(t, j), "mm")
        Bare(i) ==
            LET j == SkipSpaces(t, IF CharAt(t, i) \in {"{", "["} THEN i + 1 ELSE i)
            IN  LitAt(t, j, tail) /\ Unit(j + 2)
        Joined(i) == LitAt(t, i, lead \o tail) /\ Unit(i + 3)
        Dotted(i) ==
            LET d == SkipSpaces(t, i + 1)
                j == SkipSpaces(t, d + 1)
            IN  LitAt(t, i, lead) /\ LitAt(t, d, ".") /\ LitAt(t, j, tail) /\ Unit(j + 2)
    IN  \E i \in 1..Len(t) : Bare(i) \/ Joined(i) \/ Dotted(i)

\* re.search(r'\(Diameter\)\s*([0-9.]+)', text, re.IGNORECASE).group(1), NULL
\* without a match.
DiameterSection(text) ==
    LET t == Lower(text)
        IsNum(c) == IsDigit(c) \/ c = "."
        RECURSIVE SkipNum(_)
        SkipNum(j) == IF IsNum(CharAt(t, j)) THEN SkipNum(j + 1) ELSE j
        hits == {i \in 1..Len(t) :
                    LitAt(t, i, "(diameter)") /\ IsNum(CharAt(t, SkipSpaces(t, i + 10)))}
    IN  IF hits = {} THEN NULL
        ELSE LET q == SkipSpaces(t, Min(hits) + 10)
             IN  SubSeq(t, q, SkipNum(q) - 1)

\* A faulty correction that keeps a value outside 4.0..5.0 as it was read, in
\* hundredths, instead of moving it to the closest standard diameter.
CorrectDiameterAsRead(v) ==
    IF 4 * v.den <= v.num /\ v.num <= 5 * v.den THEN 175
    ELSE (100 * v.num) \div v.den

\* The correction of a value read after "(Diameter)": v is num/den.
CorrectDiameter(v) ==
    LET Dist(x) == Abs(100 * v.num - x * v.den)     \* |v - x/100| * 100 * den
        half == 50 * v.den
        nearest == Min({k \in 1..3 :
                          \A j \in 1..3 : Dist(DiameterValues[k]) <= Dist(DiameterValues[j])})
    IN  IF 4 * v.den <= v.num /\ v.num <= 5 * v.den
        THEN IF Dist(475) < half THEN 175
             ELSE IF Dist(485) < half THEN 285
             ELSE 175
        ELSE IF \E k \in 1..3 : Dist(DiameterValues[k]) = 0
             THEN DiameterValues[CHOOSE k \in 1..3 : Dist(DiameterValues[k]) = 0]
        ELSE IF Dist(DiameterValues[nearest]) < half THEN DiameterValues[nearest]
        ELSE NoDiameter

\* The diameter of a label text of the given brand: [value, raised], raised when
\* float() rejects the number after "(Diameter)".
ExtractDiameter(brand, text) ==
    LET diameter_match == DiameterSearch(text, DiameterUnits(brand), FALSE)
        fallback_diameter == DiameterSearch(Lower(text), <<"mm", HaoMi>>, TRUE)
        diameter_section == DiameterSection(text)
        diameter_value == IF diameter_section = NULL
                          THEN [ok |-> TRUE, num |-> 0, den |-> 1]
                          ELSE ParseFloat(diameter_section)
        bySection == IF diameter_section = NULL THEN NoDiameter
                     ELSE CorrectDiameter(diameter_value)
    IN  IF diameter_match # 0 THEN [value |-> diameter_match, raised |-> FALSE]
        ELSE IF fallback_diameter # 0 THEN [value |-> fallback_diameter, raised |-> FALSE]
        ELSE IF MisreadDiameter(text, "1", "75") THEN [value |-> 175, raised |-> FALSE]
        ELSE IF MisreadDiameter(text, "2", "85") THEN [value |-> 285, raised |-> FALSE]
        ELSE IF ~diameter_value.ok THEN [value |-> NoDiameter, raised |-> TRUE]
        ELSE IF brand = "bambu" /\ bySection = NoDiameter
             THEN [value |-> 175, raised |-> FALSE]
        ELSE [value |-> bySection, raised |-> FALSE]

\* ------------------------------------------------- parse_label: barcode

\* Every character of SubSeq(t, i, j) is a capital or a digit ([A-Z0-9], which
\* [A-Z0-9IO] equals).
AllCapsOrDigits(t, i, j) ==
    j <= Len(t) /\ \A k \in i..j : IsUpper(CharAt(t, k)) \/ IsDigit(CharAt(t, k))

\* patterns["barcode"] matches t at i (eSUN X0 and eight characters, Sunlu X, four
\* digits and six characters; the other brands have no pattern).
BarcodeAt(brand, t, i) ==
    IF brand = "esun" THEN LitAt(t, i, "X0") /\ AllCapsOrDigits(t, i + 2, i + 9)
    ELSE IF brand = "sunlu"
         THEN /\ LitAt(t, i, "X")
              /\ i + 4 <= Len(t) /\ \A k \in (i + 1)..(i + 4) : IsDigit(CharAt(t, k))
              /\ AllCapsOrDigits(t, i + 5, i + 10)
    ELSE FALSE

\* r'X[0O][0O][0-9A-Z]{2}[0-9A-Z]{2}[0-9A-Z]{4}' with re.IGNORECASE, on the
\* upper-cased text.
FallbackBarcodeAt(T, i) ==
    /\ LitAt(T, i, "X")
    /\ CharAt(T, i + 1) \in {"0", "O"} /\ CharAt(T, i + 2) \in {"0", "O"}
    /\ AllCapsOrDigits(T, i + 3, i + 10)

\* The barcode of a label text of the given brand, NULL when none is found.
ExtractBarcode(brand, text) ==
    LET hits == {i \in 1..Len(text) : BarcodeAt(brand, text, i)}
        T == Upper(text)
        loose == {i \in 1..Len(T) : FallbackBarcodeAt(T, i)}
    IN  IF brand \notin {"esun", "sunlu"} THEN NULL
        ELSE IF hits # {}
             THEN SubSeq(text, Min(hits), Min(hits) + (IF brand = "esun" THEN 9 ELSE 10))
        ELSE IF loose # {} THEN ReplaceChar(SubSeq(T, Min(loose), Min(loose) + 10), "O", "0")
        ELSE NULL

\* ------------------------------------------- parse_label: the result dict

\* The value parse_label writes into ocr_confidence in each of its three result
\* dicts.
ReportedConfidence == 0

\* A result dict of parse_label.  raised is not a key of the dict: it is TRUE
\* when the extraction ended in an exception instead of a dict.
LabelResult(brand, material, color_name, diameter_mm, barcode, raw_text, strategy_used, error) ==
    [brand |-> brand, material |-> material, color_name |-> color_name,
     diameter_mm |-> diameter_mm, barcode |-> barcode, raw_text |-> raw_text,
     ocr_confidence |-> ReportedConfidence, strategy_used |-> strategy_used,
     error |-> error, raised |-> FALSE]

\* The outcome of an extraction that raised (parse_label turns every exception
\* into OCRError).
RaisedResult ==
    [brand |-> NULL, material |-> NULL, color_name |-> NULL, diameter_mm |-> NoDiameter,
     barcode |-> NULL, raw_text |-> NULL, ocr_confidence |-> ReportedConfidence,
     strategy_used |-> NULL, error |-> "OCRError", raised |-> TRUE]

\* The shortest stripped text parse_label goes on with.
MinTextLen == 5

\* parse_label from the recognized text on: the field extraction.
ExtractFields(text, strategy_used, colorMap) ==
    LET brand == detect_brand(text)
        diameter == ExtractDiameter(brand, text)
    IN  IF text = "" \/ Len(Strip(text)) < MinTextLen
        THEN LabelResult(NULL, NULL, NULL, NoDiameter, NULL, text, strategy_used,
                         "No text detected in image")
        ELSE IF brand = NULL
        THEN LabelResult(NULL, NULL, NULL, NoDiameter, NULL, text, strategy_used,
                         "Could not detect brand")
        ELSE IF diameter.raised THEN RaisedResult
        ELSE LabelResult(BrandName(brand), ExtractMaterial(brand, text),
                         ExtractColor(brand, text, colorMap), diameter.value,
                         ExtractBarcode(brand, text), text, strategy_used, NULL)

\* ------------------------------------------------- InvoiceParser: helpers

IsAlnum(c) == IsLetter(c) \/ IsDigit(c)

\* The position after the longest run of letters and digits that starts at i.
RECURSIVE SkipAlnum(_, _)
SkipAlnum(t, i) == IF IsAlnum(CharAt(t, i)) THEN SkipAlnum(t, i + 1) ELSE i

RECURSIVE SplitLines(_)
\* text.split("\n")
SplitLines(t) ==
    LET n == Find(t, "\n")
    IN  IF n = 0 THEN <<t>>
        ELSE <<SubSeq(t, 1, n - 1)>> \o SplitLines(SubSeq(t, n + 1, Len(t)))

\* [line.strip() for line in text.split("\n")]
StrippedLines(t) == LET L == SplitLines(t) IN [k \in 1..Len(L) |-> Strip(L[k])]

RECURSIVE JoinLines(_)
\* The text of a page whose lines are given, and the "\n" the parsers add to it.
JoinLines(L) == IF Len(L) = 0 THEN "" ELSE L[1] \o "\n" \o JoinLines(Tail(L))

\* A price: num/den, den a power of ten; NoPrice stands for None.
NoPrice == [num |-> 0, den |-> 0]

\* float(s) of a price the patterns have matched.
PriceOf(s) == LET f == ParseFloat(s) IN [num |-> f.num, den |-> f.den]

\* A date; NoDate stands for None.
NoDate == [year |-> 0, month |-> 0, day |-> 0]

\* The number of days of a month.
DaysIn(year, month) ==
    IF month = 2
    THEN IF (year % 4 = 0 /\ year % 100 # 0) \/ year % 400 = 0 THEN 29 ELSE 28
    ELSE IF month \in {4, 6, 9, 11} THEN 30 ELSE 31

\* datetime.strptime(s, "%Y-%m-%d").date() for s of the form dddd-dd-dd: ok is
\* FALSE where strptime raises ValueError.
ParseIsoDate(s) ==
    LET year == DigitsValue(SubSeq(s, 1, 4), 0)
        month == DigitsValue(SubSeq(s, 6, 7), 0)
        day == DigitsValue(SubSeq(s, 9, 10), 0)
    IN  IF year >= 1 /\ month \in 1..12 /\ day >= 1 /\ day <= DaysIn(year, month)
        THEN [ok |-> TRUE, date |-> [year |-> year, month |-> month, day |-> day]]
        ELSE [ok |-> FALSE, date |-> NoDate]

\* -------------------------------------- InvoiceParser.parse_bambu_invoice

\* re.search(r"Order Number:\s*([A-Za-z0-9]+)", full_text).group(1), NULL without
\* a match.
BambuOrderNumber(t) ==
    LET hits == {i \in 1..Len(t) :
                    LitAt(t, i, "Order Number:") /\ IsAlnum(CharAt(t, SkipSpaces(t, i + 13)))}
    IN  IF hits = {} THEN NULL
        ELSE LET q == SkipSpaces(t, Min(hits) + 13)
             IN  SubSeq(t, q, SkipAlnum(t, q) - 1)

\* dddd-dd-dd stands in t at position q.
IsoDateAt(t, q) ==
    /\ \A k \in {0, 1, 2, 3, 5, 6, 8, 9} : IsDigit(CharAt(t, q + k))
    /\ CharAt(t, q + 4) = "-" /\ CharAt(t, q + 7) = "-"

\* re.search(r"Invoice Date:\s*(\d{4}-\d{2}-\d{2})", full_text).group(1), NULL
\* without a match.
BambuInvoiceDate(t) ==
    LET hits == {i \in 1..Len(t) :
                    LitAt(t, i, "Invoice Date:") /\ IsoDateAt(t, SkipSpaces(t, i + 13))}
    IN  IF hits = {} THEN NULL
        ELSE LET q == SkipSpaces(t, Min(hits) + 13) IN SubSeq(t, q, q + 9)

\* ---------------------------------- InvoiceParser._extract_bambu_products

\* The material types a product name begins with.
MaterialTypes == <<"PLA", "PETG", "ABS", "TPU", "ASA">>

\* re.match(r"^(PLA|PETG|ABS|TPU|ASA)(\s+(Basic|...))?", line, re.IGNORECASE): the
\* optional group decides nothing.
IsProductLine(line) == StartsWithAny(Upper(line), MaterialTypes)

\* re.match(r"^(Multi-Color|for AMS|HF)", next_line, re.IGNORECASE)
IsNameContinuation(line) == StartsWithAny(Upper(line), <<"MULTI-COLOR", "FOR AMS", "HF">>)

\* re.search(r"SKU:\s*([A-Z0-9-]+)", line).group(1), NULL without a match.
SkuOf(line) ==
    LET IsSkuChar(c) == IsUpper(c) \/ IsDigit(c) \/ c = "-"
        RECURSIVE SkipSku(_)
        SkipSku(j) == IF IsSkuChar(CharAt(line, j)) THEN SkipSku(j + 1) ELSE j
        hits == {i \in 1..Len(line) :
                    LitAt(line, i, "SKU:") /\ IsSkuChar(CharAt(line, SkipSpaces(line, i + 4)))}
    IN  IF hits = {} THEN NULL
        ELSE LET q == SkipSpaces(line, Min(hits) + 4) IN SubSeq(line, q, SkipSku(q) - 1)

\* A faulty pattern that knows the prefix SPL alone:
\* r"^(?:SPL\s+)?(\d+)\s+\$(\d+\.\d+)"
QtyPriceSplOnly(line) ==
    LET p == IF StartsWith(line, "SPL") /\ IsSpace(CharAt(line, 4))
             THEN SkipSpaces(line, 4)
             ELSE 1
        q == SkipDigits(line, p)
        d == SkipSpaces(line, q)
        w == SkipDigits(line, d + 1)
        e == SkipDigits(line, w + 1)
    IN  IF /\ q > p /\ d > q /\ CharAt(line, d) = "$"
           /\ w > d + 1 /\ CharAt(line, w) = "." /\ e > w + 1
        THEN [found |-> TRUE, qty |-> DigitsValue(SubSeq(line, p, q - 1), 0),
              price |-> [num |-> ParseFloat(SubSeq(line, d + 1, e - 1)).num,
                         den |-> ParseFloat(SubSeq(line, d + 1, e - 1)).den]]
        ELSE [found |-> FALSE, qty |-> 1, price |-> [num |-> 0, den |-> 0]]

\* re.search(r"^(?:SPL(?:FREE)?\s+)?(\d+)\s+\$(\d+\.\d+)", line): [found, qty,
\* price], qty being int(group(1)) and price float(group(2)).
QtyPrice(line) ==
    LET p == IF StartsWith(line, "SPLFREE") /\ IsSpace(CharAt(line, 8))
             THEN SkipSpaces(line, 8)
             ELSE IF StartsWith(line, "SPL") /\ IsSpace(CharAt(line, 4))
             THEN SkipSpaces(line, 4)
             ELSE 1
        q == SkipDigits(line, p)            \* after group 1
        d == SkipSpaces(line, q)            \* the dollar sign
        w == SkipDigits(line, d + 1)        \* the dot
        e == SkipDigits(line, w + 1)        \* after group 2
    IN  IF /\ q > p /\ d > q /\ CharAt(line, d) = "$"
           /\ w > d + 1 /\ CharAt(line, w) = "." /\ e > w + 1
        THEN [found |-> TRUE, qty |-> DigitsValue(SubSeq(line, p, q - 1), 0),
              price |-> PriceOf(SubSeq(line, d + 1, e - 1))]
        ELSE [found |-> FALSE, qty |-> 1, price |-> NoPrice]

\* The first of the five lines from i on (0-based, below n) that holds a quantity
\* and a price, -1 when none does: the look-ahead loop of lines 120-132.
QtyLineFrom(L, i) ==
    LET n == Len(L)
        last == (IF i + 5 < n THEN i + 5 ELSE n) - 1
        hits == {k \in i..last : QtyPrice(L[k + 1]).found}
    IN  IF hits = {} THEN -1 ELSE Min(hits)

\* "(" in s and ")" in s
HasParens(s) == Contains(s, "(") /\ Contains(s, ")")

RECURSIVE VariantScan(_, _, _, _)
\* The loop of lines 149-174 from look_ahead = k on, with the variant_line
\* collected so far; i is the index the outer scan holds on entry and last the
\* last index of the range.  [i, variant_line] after the loop.
VariantScan(L, i, k, acc) ==
    LET n == Len(L)
        last == (IF i + 5 < n THEN i + 5 ELSE n) - 1
        line == L[k + 1]
        more == acc \o " " \o line
    IN  IF k > last THEN [i |-> i + 1, variant_line |-> acc]
        ELSE IF StartsWithAny(line, MaterialTypes) THEN [i |-> i, variant_line |-> acc]
        ELSE IF StartsWithAny(line, <<"Items Subtotal", "Shipping", "Grand total",
                                      "Total exclude">>)
             THEN [i |-> i, variant_line |-> acc]
        ELSE IF StartsWith(line, "Variant:") \/ (HasParens(line) /\ ~StartsWith(line, "PLA"))
             THEN IF HasParens(more) THEN [i |-> k + 1, variant_line |-> more]
                  ELSE VariantScan(L, i, k + 1, more)
        ELSE IF acc # "" /\ ~StartsWithAny(line, <<"TAX", "WA STATE", "WA CITY", "SKU", "SPL">>)
             THEN IF Contains(more, "kg") \/ HasParens(more)
                  THEN [i |-> k + 1, variant_line |-> more]
                  ELSE VariantScan(L, i, k + 1, more)
        ELSE VariantScan(L, i, k + 1, acc)

\* What ends a colour name: re.sub(r'\s+(TAX|WA STATE|WA CITY|Refill|Filament|with
\* spool|/).*$', '', color_name, flags=re.IGNORECASE)
CutColorTail(color) ==
    LET u == Upper(color)
        tails == <<"TAX", "WA STATE", "WA CITY", "REFILL", "FILAMENT", "WITH SPOOL", "/">>
        hits == {i \in 1..Len(u) :
                    IsSpace(CharAt(u, i)) /\ AltAt(u, SkipSpaces(u, i), tails) # 0}
    IN  IF hits = {} THEN color ELSE SubSeq(color, 1, Min(hits) - 1)

\* The colour of a variant line, lines 177-183: group 1 of
\* re.search(r"Variant:\s*([^(]+?)\s*\(", variant_line), cleaned; NULL without a
\* match.
VariantColor(variant_line) ==
    LET v == variant_line
        Paren(i) == Min({j \in (i + 8)..Len(v) : CharAt(v, j) = "("})
        hits == {i \in 1..Len(v) :
                    /\ LitAt(v, i, "Variant:")
                    /\ \E j \in (i + 8)..Len(v) : CharAt(v, j) = "("
                    /\ Paren(i) > i + 8}
    IN  IF hits = {} THEN NULL
        ELSE LET i == Min(hits)
                 group == Strip(SubSeq(v, i + 8, Paren(i) - 1))
             IN  NormalizeSpaces(Strip(CutColorTail(Strip(group))))

\* The material of a product name, lines 186-209.
BambuMaterial(product_name) ==
    LET product_upper == Upper(product_name)
        Has(s) == Contains(product_upper, s)
    IN  IF Has("PLA")
        THEN IF Has("SILK") /\ Has("MULTI") THEN "PLA SILK MULTI-COLOR"
             ELSE IF Has("SILK") THEN "PLA SILK"
             ELSE IF Has("MATTE") THEN "PLA MATTE"
             ELSE IF Has("TOUGH+") \/ Has("TOUGH") THEN "PLA TOUGH+"
             ELSE IF Has("BASIC") THEN "PLA BASIC"
             ELSE "PLA"
        ELSE IF Has("PETG") THEN (IF Has("HF") THEN "PETG HF" ELSE "PETG")
        ELSE IF Has("ABS") THEN "ABS"
        ELSE IF Has("TPU") THEN "TPU"
        ELSE IF Has("ASA") THEN "ASA"
        ELSE NULL

\* An InvoiceLineItem as the scanners build it.
LineItem(brand, material, color_name, diameter_mm, sku, quantity, price, product_line) ==
    [brand |-> brand, material |-> material, color_name |-> color_name,
     diameter_mm |-> diameter_mm, sku |-> sku, quantity |-> quantity, price |-> price,
     product_line |-> product_line]

\* What a pass of the while loop of _extract_bambu_products leaves: i is the index
\* the next pass starts at, raised tells that line 135 read lines[i] beyond the end
\* (IndexError), emit that the pass appended item.
PassResult(i, raised, emit, item) == [i |-> i, raised |-> raised, emit |-> emit, item |-> item]

NoItem == LineItem(NULL, NULL, NULL, 0, NULL, 0, NoPrice, NULL)

\* Lines 138-222 of a pass: the variant, the colour, the material, the item.
BambuVariant(L, product_name, sku, qty_match, i) ==
    LET variant == VariantScan(L, i, i, "")
        color_name == VariantColor(variant.variant_line)
        material == BambuMaterial(product_name)
    IN  PassResult(variant.i, FALSE,
                   material # NULL /\ color_name # NULL /\ color_name # "",
                   LineItem("Bambu Lab", material, color_name, 175, sku, qty_match.qty,
                            qty_match.price, product_name))

\* Lines 134-136 of a pass: the WA CITY line is skipped; lines[i] is read even when
\* i is beyond the last line.
BambuCity(L, product_name, sku, qty_match, i) ==
    IF i >= Len(L) THEN PassResult(i, TRUE, FALSE, NoItem)
    ELSE IF \/ L[i + 1] = "WA CITY"
            \/ StartsWith(L[i + 1], "WA CITY") /\ ~Contains(L[i + 1], "TAX")
         THEN BambuVariant(L, product_name, sku, qty_match, i + 1)
         ELSE BambuVariant(L, product_name, sku, qty_match, i)

\* Lines 104-132 of a pass: the TAX line is skipped, and the quantity and the price
\* are looked for in the five lines that follow.
BambuPriced(L, product_name, sku, i) ==
    LET from == IF i < Len(L) /\ Contains(L[i + 1], "TAX") /\ ~Contains(L[i + 1], "WA STATE")
                THEN i + 1 ELSE i
        qtyLine == QtyLineFrom(L, from)
    IN  IF qtyLine = -1
        THEN BambuCity(L, product_name, sku, [found |-> FALSE, qty |-> 1, price |-> NoPrice],
                       from + 1)
        ELSE BambuCity(L, product_name, sku, QtyPrice(L[qtyLine + 1]), qtyLine + 1)

\* Lines 93-102 of a pass: the WA STATE TAX line is skipped and the SKU is read.
BambuSku(L, product_name, i) ==
    LET from == IF i < Len(L) /\ Contains(L[i + 1], "WA STATE") THEN i + 1 ELSE i
    IN  IF from < Len(L) /\ StartsWith(L[from + 1], "SKU:")
        THEN BambuPriced(L, product_name, SkuOf(L[from + 1]), from + 1)
        ELSE BambuPriced(L, product_name, NULL, from)

\* One pass of the while loop of _extract_bambu_products with the scan at line i
\* (0-based) of L.
BambuPass(L, i) ==
    LET continued ==
            /\ i + 1 < Len(L)
            /\ ~StartsWithAny(L[i + 2], <<"SKU:", "WA STATE", "TAX", "Variant:">>)
            /\ IsNameContinuation(L[i + 2])
    IN  IF ~IsProductLine(L[i + 1]) THEN PassResult(i + 1, FALSE, FALSE, NoItem)
        ELSE IF continued THEN BambuSku(L, L[i + 1] \o " " \o L[i + 2], i + 2)
        ELSE BambuSku(L, L[i + 1], i + 1)

\* -------------------------------------- InvoiceParser.parse_amazon_invoice

\* ddd-ddddddd-ddddddd stands in t at position q.
AmazonOrderAt(t, q) ==
    /\ \A k \in 0..18 : IF k \in {3, 11} THEN CharAt(t, q + k) = "-"
                        ELSE IsDigit(CharAt(t, q + k))

\* re.search(r"Order #\s*(\d{3}-\d{7}-\d{7})", full_text).group(1), NULL without a
\* match.
AmazonOrderNumber(t) ==
    LET hits == {i \in 1..Len(t) :
                    LitAt(t, i, "Order #") /\ AmazonOrderAt(t, SkipSpaces(t, i + 7))}
    IN  IF hits = {} THEN NULL
        ELSE LET q == SkipSpaces(t, Min(hits) + 7) IN SubSeq(t, q, q + 18)

\* The month names %B reads, lower-cased.
MonthNames ==
    <<"january", "february", "march", "april", "may", "june", "july", "august",
      "september", "october", "november", "december">>

\* The match of r"Order placed\s+([A-Za-z]+\s+\d{1,2},\s+\d{4})" that begins at i:
\* [found, month, day, year], the three being the texts strptime is given.
OrderPlacedAt(t, i) ==
    LET a == SkipSpaces(t, i + 12)          \* the month
        b == SkipLetters(t, a)
        c == SkipSpaces(t, b)               \* the day
        d == SkipDigits(t, c)               \* the comma
        e == SkipSpaces(t, d + 1)           \* the year
    IN  IF /\ LitAt(t, i, "Order placed") /\ a > i + 12 /\ b > a /\ c > b
           /\ d > c /\ d <= c + 2 /\ CharAt(t, d) = "," /\ e > d + 1
           /\ \A k \in 0..3 : IsDigit(CharAt(t, e + k))
        THEN [found |-> TRUE, month |-> SubSeq(t, a, b - 1), day |-> SubSeq(t, c, d - 1),
              year |-> SubSeq(t, e, e + 3)]
        ELSE [found |-> FALSE, month |-> "", day |-> "", year |-> ""]

\* The order date of parse_amazon_invoice, lines 259-265: NoDate without a match,
\* and when strptime(date_str, "%B %d, %Y") raises ValueError.
AmazonOrderDate(t) ==
    LET hits == {i \in 1..Len(t) : OrderPlacedAt(t, i).found}
        m == OrderPlacedAt(t, Min(hits))
        months == {k \in 1..12 : MonthNames[k] = Lower(m.month)}
        month == CHOOSE k \in months : TRUE
        day == DigitsValue(m.day, 0)
        year == DigitsValue(m.year, 0)
    IN  IF hits = {} \/ months = {} THEN NoDate
        ELSE IF year >= 1 /\ day >= 1 /\ day <= DaysIn(year, month)
        THEN [year |-> year, month |-> month, day |-> day]
        ELSE NoDate

\* ---------------------------- InvoiceParser._parse_amazon_filament_description

\* The colour names of the description parser, in the order of the list.
colors ==
    <<"black", "white", "grey", "gray", "red", "blue", "green", "yellow", "orange",
      "purple", "pink", "gold", "silver", "copper", "brown", "pine green", "deep black",
      "cold white", "cool white">>

RECURSIVE TitleFrom(_, _)
\* str.title() of s, cased tells whether a letter stands right before s.
TitleFrom(s, cased) ==
    IF s = "" THEN ""
    ELSE (IF cased THEN LowerChar(Head(s)) ELSE UpperChar(Head(s)))
             \o TitleFrom(Tail(s), IsLetter(Head(s)))

\* str.title()
TitleCase(s) == TitleFrom(s, FALSE)

\* A faulty choice that takes the first colour name found, whatever its length.
AmazonColorFirst(desc_lower) ==
    LET found_colors == {k \in 1..Len(colors) : Contains(desc_lower, colors[k])}
    IN  IF found_colors = {} THEN "Unknown" ELSE TitleCase(colors[Min(found_colors)])

\* max(found_colors, key=len).title(): the first of the longest colour names that
\* occur in the description, "Unknown" when none does.
AmazonColor(desc_lower) ==
    LET found_colors == {k \in 1..Len(colors) : Contains(desc_lower, colors[k])}
        longest == {k \in found_colors :
                       \A j \in found_colors : Len(colors[j]) <= Len(colors[k])}
    IN  IF found_colors = {} THEN "Unknown" ELSE TitleCase(colors[Min(longest)])

\* The brand of a description.
AmazonBrand(desc_lower) ==
    IF Contains(desc_lower, "esun") THEN "eSUN"
    ELSE IF Contains(desc_lower, "sunlu") THEN "Sunlu"
    ELSE IF Contains(desc_lower, "overture") THEN "Overture"
    ELSE IF Contains(desc_lower, "polymaker") THEN "Polymaker"
    ELSE IF Contains(desc_lower, "hatchbox") THEN "Hatchbox"
    ELSE IF Contains(desc_lower, "bambu") THEN "Bambu Lab"
    ELSE "Unknown"

\* The material of a description.
AmazonMaterial(desc_lower) ==
    LET Has(s) == Contains(desc_lower, s)
    IN  IF Has("pla+") \/ Has("pla plus") THEN "PLA+"
        ELSE IF Has("pla matte") \/ Has("matte pla") THEN "PLA Matte"
        ELSE IF Has("pla silk") \/ Has("silk pla") THEN "PLA Silk"
        ELSE IF Has("pla") THEN "PLA"
        ELSE IF Has("petg") THEN "PETG"
        ELSE IF Has("tpu") THEN "TPU"
        ELSE IF Has("abs") THEN "ABS"
        ELSE IF Has("asa") THEN "ASA"
        ELSE "PLA"

\* _parse_amazon_filament_description: the item of a description and a price.
parse_amazon_filament_description(description, price) ==
    LET desc_lower == Lower(description)
    IN  LineItem(AmazonBrand(desc_lower), AmazonMaterial(desc_lower),
                 AmazonColor(desc_lower),
                 IF Contains(description, "2.85") THEN 285 ELSE 175,
                 NULL, 1, price,
                 SubSeq(description, 1, Min({50, Len(description)})) \o "...")

\* -------------------------------- InvoiceParser._extract_amazon_products

RECURSIVE NonEmpty(_)
\* [line.strip() for line in text.split("\n") if line.strip()], of stripped lines
NonEmpty(L) ==
    IF Len(L) = 0 THEN <<>>
    ELSE (IF L[1] = "" THEN <<>> ELSE <<L[1]>>) \o NonEmpty(Tail(L))

\* re.match(r"^\$(\d+\.\d{2})$", line)
IsPriceLine(line) ==
    LET w == SkipDigits(line, 2)
    IN  /\ CharAt(line, 1) = "$" /\ w > 2 /\ CharAt(line, w) = "."
        /\ IsDigit(CharAt(line, w + 1)) /\ IsDigit(CharAt(line, w + 2))
        /\ Len(line) = w + 2

\* re.sub(r'^\$\d+\.\d{2}\s+', '', description)
DropLeadingPrice(s) ==
    LET w == SkipDigits(s, 2)
    IN  IF /\ CharAt(s, 1) = "$" /\ w > 2 /\ CharAt(s, w) = "."
           /\ IsDigit(CharAt(s, w + 1)) /\ IsDigit(CharAt(s, w + 2))
           /\ IsSpace(CharAt(s, w + 3))
        THEN SubSeq(s, SkipSpaces(s, w + 3), Len(s))
        ELSE s

\* A line that ends a description read upwards, lines 320-328.
EndsDescription(line) ==
    \/ StartsWith(line, "Delivered") \/ Contains(line, "Order placed")
    \/ StartsWithAny(line, <<"Return or replace", "Order #", "Supplied by:">>)
    \/ IsPriceLine(line)

RECURSIVE DescriptionLines(_, _, _)
\* The description lines gathered from line k (0-based) upwards, down to line low.
DescriptionLines(L, k, low) ==
    IF k < low \/ EndsDescription(L[k + 1]) THEN <<>>
    ELSE DescriptionLines(L, k - 1, low) \o <<L[k + 1]>>

\* One pass of the while loop of _extract_amazon_products with the scan at line i
\* (0-based) of L: [emit, item].
AmazonPass(L, i) ==
    LET line == L[i + 1]
        Max0(x) == IF x < 0 THEN 0 ELSE x
        sellers == {j \in Max0(i - 9)..(i - 1) :
                       StartsWithAny(L[j + 1], <<"Sold by:", "Supplied by:">>)}
        sold_by_idx == CHOOSE j \in sellers : \A x \in sellers : x <= j
        description_lines == DescriptionLines(L, sold_by_idx - 1, Max0(sold_by_idx - 5))
        full_description == DropLeadingPrice(Strip(JoinWords(description_lines)))
        low == Lower(full_description)
        price == PriceOf(SubSeq(line, 2, Len(line)))
    IN  IF ~IsPriceLine(line) \/ sellers = {}
        THEN [emit |-> FALSE, item |-> NoItem]
        ELSE [emit |-> Contains(low, "filament") \/ Contains(low, "pla") \/ Contains(low, "petg"),
              item |-> parse_amazon_filament_description(full_description, price)]

\* ------------------------------------------------------------- the state

VARIABLES
    \* LabelParser.parse_label, one call at a time
    pc,                 \* where the call is: "idle", "check", "validate", "preprocess",
                        \* "attempt", "select", "extract", "returned", "raised"
    tesseractAvailable, \* whether pytesseract.get_tesseract_version() answers
    imageValid,         \* whether Image.open and img.verify accept the bytes
    sIdx,               \* index into strategies of the strategy in hand
    mIdx,               \* index into PSM_MODES of the next mode to try
    best,               \* best_text, best_confidence, best_strategy, best_psm
    attempts,           \* the recognition passes started so far in this call
    last,               \* the latest step of the runner and what it gave
    seen,               \* what the passes of this call have shown so far
    text,               \* the recognized text handed to the field extraction
    strategy_used,      \* the label returned with the text
    result,             \* the dict the call returned, or how it raised
    chineseColorMap,    \* the class attribute LabelParser.CHINESE_COLOR_MAP
    first,              \* an earlier finished call, kept to compare a later one with
    img,                \* the image as opened and as _preprocess_basic leaves it
    \* InvoiceParser, one scan at a time
    ipc,                \* where the parser is: "idle", "header", "scan", "done",
                        \* "raised"
    pdf,                \* the text of each page of the PDF, as extract_text gives it
    vendor,             \* "bambu" or "amazon", NULL when none is detected
    full_text,          \* the text of the pages, each followed by "\n"
    lines,              \* the text lines under the cursor
    cursor,             \* i of the scanner, 0-based as in the code
    items,              \* the items emitted so far
    header,             \* order_number and order_date of the invoice
    ierror,             \* the exception a parser call ended with, NULL without one
    \* the HTTP API (main.py), one request at a time
    epc,                \* where the request is: "idle", "validate", "parse", "import",
                        \* "commit", "responded"
    upload,             \* the endpoint called and the file uploaded to it
    calls,              \* the calls of LabelParser.parse_label and
                        \* InvoiceParser.parse_invoice made for the upload
    response,           \* the status code and the body the request was answered with
    job,                \* import_from_invoice: the invoice data and the loop over it
    products,           \* the rows of the table product
    spools,             \* the rows of the table spool
    change_logs,        \* the rows of the table spoolchangelog
    clock,              \* datetime.now(timezone.utc), in ticks
    ledger              \* for each row, the value each field was last given by a call

labelVars == <<pc, tesseractAvailable, imageValid, sIdx, mIdx, best, attempts, last, seen,
               text, strategy_used, result, chineseColorMap, first, img>>
invoiceVars == <<ipc, pdf, vendor, full_text, lines, cursor, items, header, ierror>>
apiVars == <<epc, upload, calls, response, job, products, spools, change_logs, clock,
             ledger>>
vars == <<labelVars, invoiceVars, apiVars>>

\* ------------------------------ LabelParser._extract_text_multiple_strategies

\* strategies, in the order the loop tries them.
strategies ==
    <<"strategy_1_moderate", "strategy_4_minimal", "strategy_2_grayscale",
      "strategy_3_aggressive">>

PSM_MODES == <<6, 11, 3, 7>>

\* A candidate must have more than this many characters (stripped).
MinMeaningfulLen == 10

\* Above this confidence the loop returns at once.
HighConfidence == 80

\* best_text, best_confidence, best_strategy, best_psm before the loop.
NoBest == [text |-> "", confidence |-> 0, strategy |-> "unknown", psm |-> 6]

\* f"{strategy_name}_psm{psm}"
StrategyLabel(name, psm) == name \o "_psm" \o ToString(psm)

\* No call has returned or raised yet.
NoResult ==
    [brand |-> NULL, material |-> NULL, color_name |-> NULL, diameter_mm |-> NoDiameter,
     barcode |-> NULL, raw_text |-> NULL, ocr_confidence |-> ReportedConfidence,
     strategy_used |-> NULL, error |-> "<no result>", raised |-> FALSE]

\* An OCRError raised before the field extraction.
Raised(why) == [RaisedResult EXCEPT !.error = why]

\* What the recognition engine does in one _run_ocr_with_config call:
\*   data      image_to_data with eng+chi_sim: "ok", "lang" (it raises, and the
\*             message holds 'error', 'not found' or 'unable'), "other" (it raises
\*             with another message)
\*   dataEng   image_to_data with eng alone: "ok" or "fail"
\*   str       image_to_string with eng+chi_sim: "ok" or "fail"
\*   strEng    image_to_string with eng alone: "ok" or "fail"
\*   text, confidence   what a pass that answers reads
\* _run_ocr_with_config: [raised, text, confidence].
run_ocr_with_config(e) ==
    LET Ok(conf) == [raised |-> FALSE, text |-> e.text, confidence |-> conf]
        Fail == [raised |-> TRUE, text |-> "", confidence |-> 0]
    IN  IF e.data = "ok" THEN Ok(e.confidence)
        ELSE IF e.data = "lang"
             THEN IF e.dataEng = "ok" THEN Ok(e.confidence)
                  ELSE IF e.strEng = "ok" THEN Ok(0)
                  ELSE Fail
        ELSE IF e.str = "ok" THEN Ok(0)
        ELSE IF e.strEng = "ok" THEN Ok(0)
        ELSE Fail

\* The candidate replaces the best one: the test of the loop body.
Improves(t, confidence, b) ==
    /\ t # "" /\ Len(Strip(t)) > MinMeaningfulLen
    /\ \/ confidence > b.confidence
       \/ confidence > 0 /\ Len(t) > Len(b.text)

\* --------------------------------------------------- what the model feeds in

\* The texts a recognition pass may read in the pipeline: nothing, a text too
\* short to count (9 characters), and two label texts of different length.
OcrTexts ==
    {"", "SUNLU PLA", "SUNLU PLA+ Yellow 1.75mm", "Bambu Lab PETG HF Black 1.75 mm"}

\* The mean confidences a pass may report, in percent: none, two that leave the
\* loop running, and one above HighConfidence.
Confidences == {0, 50, 70, 85}

\* Every behaviour of the engine in one _run_ocr_with_config call.  A pass of
\* image_to_data that reads text reports a confidence above zero: only words with
\* conf > 0 are kept, and the mean is taken over them.
EngineOutcomes ==
    {e \in [data : {"ok", "lang", "other"}, dataEng : {"ok", "fail"},
            str : {"ok", "fail"}, strEng : {"ok", "fail"},
            text : OcrTexts, confidence : Confidences] :
        /\ e.text # "" => e.confidence > 0
        \* a step the call does not come to is written "ok"
        /\ e.data = "ok" => e.dataEng = "ok" /\ e.str = "ok" /\ e.strEng = "ok"
        /\ e.data = "lang" => e.str = "ok" /\ (e.dataEng = "ok" => e.strEng = "ok")
        /\ e.data = "other" => e.dataEng = "ok" /\ (e.str = "ok" => e.strEng = "ok")
        \* and so are a text and a confidence the call does not hand on: the least
        /\ run_ocr_with_config(e).raised => e.text = "" /\ e.confidence = 0
        /\ (e.data # "ok" /\ (e.data = "lang" => e.dataEng = "fail"))
              => \A c \in Confidences : (e.text # "" => c > 0) => e.confidence <= c}

\* The scan of the invoice scanners is not running.
InvoiceIdle ==
    /\ ipc = "idle" /\ pdf = <<>> /\ vendor = NULL /\ full_text = "" /\ lines = <<>>
    /\ cursor = 0 /\ items = <<>>
    /\ header = [order_number |-> NULL, order_date |-> NoDate]
    /\ ierror = NULL

\* No file has been uploaded.
NoUpload ==
    [endpoint |-> NULL, size |-> 0, content_type |-> NULL, ext |-> NULL, holds |-> "none",
     format |-> NULL, width |-> 0, height |-> 0, pages |-> 0]

\* No request has been answered.
NoResponse == [status |-> 0, error |-> NULL, body |-> NULL]

\* The result of a parser before anything is read.
NoInvoice ==
    [order_number |-> NULL, order_date |-> NoDate, vendor |-> NULL, items |-> <<>>]

\* No import is at work.  Of an import at work: invoice is the invoice_data, i the
\* number of its items the loop has done, products and spools the two tables as
\* the session of the request sees them, before their lengths when the request
\* came.
NoJob ==
    [invoice |-> NoInvoice, i |-> 0, products_created |-> 0, spools_created |-> 0,
     imported_items |-> <<>>, products |-> <<>>, spools |-> <<>>,
     before |-> [products |-> 0, spools |-> 0]]

\* The API has served no request, and its tables are empty.
ApiIdle ==
    /\ epc = "idle" /\ upload = NoUpload /\ calls = 0 /\ response = NoResponse
    /\ job = NoJob
    /\ products = <<>> /\ spools = <<>> /\ change_logs = <<>>
    /\ clock = 0 /\ ledger = <<>>

\* No step of the runner has been taken in this call.
NoLast == [kind |-> "none", raised |-> FALSE, text |-> "", confidence |-> 0]

\* The passes of this call have shown nothing yet: no pass has read more than
\* MinMeaningfulLen characters, the highest confidence of such a pass is 0, and
\* no preprocessing and no pass has failed.
NoneSeen == [meaningful |-> FALSE, maxConfidence |-> 0, failed |-> FALSE]

\* No image has been opened.
NoImage == [opened |-> [width |-> 0, height |-> 0], orientation |-> 0,
            size |-> [width |-> 0, height |-> 0], stage |-> "none"]

\* No earlier call is kept.
NoFirst == [text |-> NULL, result |-> NoResult, between |-> FALSE]

\* ----------------------------------------------- LabelParser.parse_label

\* A call of parse_label begins.
Start ==
    /\ pc \in {"idle", "returned", "raised"}
    /\ pc' = "check"
    /\ tesseractAvailable' \in BOOLEAN
    /\ imageValid' \in BOOLEAN
    /\ sIdx' = 1 /\ mIdx' = 1 /\ best' = NoBest /\ attempts' = 0
    /\ last' = NoLast /\ seen' = NoneSeen
    /\ text' = "" /\ strategy_used' = NULL /\ result' = NoResult
    /\ UNCHANGED <<chineseColorMap, first, img, invoiceVars, apiVars>>

\* _check_tesseract_available, and the OCRError when it fails.
CheckTesseract ==
    /\ pc = "check"
    /\ IF tesseractAvailable
       THEN pc' = "validate" /\ UNCHANGED result
       ELSE pc' = "raised" /\ result' = Raised("OCRError: Tesseract is not installed")
    /\ UNCHANGED <<tesseractAvailable, imageValid, img, sIdx, mIdx, best, attempts, last, seen, text,
                   strategy_used, chineseColorMap, first, invoiceVars, apiVars>>

\* A faulty _validate_image that hands on whatever Image.open returns, verified
\* or not.
ValidateImageUnverified ==
    /\ pc = "validate"
    /\ pc' = "preprocess"
    /\ UNCHANGED <<tesseractAvailable, imageValid, img, sIdx, mIdx, best, attempts, last, seen, text,
                   strategy_used, result, chineseColorMap, first, invoiceVars, apiVars>>

\* _validate_image, the first statement of _extract_text_multiple_strategies.
ValidateImage ==
    /\ pc = "validate"
    /\ IF imageValid
       THEN pc' = "preprocess" /\ UNCHANGED result
       ELSE pc' = "raised" /\ result' = Raised("OCRError: Invalid image format")
    /\ UNCHANGED <<tesseractAvailable, imageValid, img, sIdx, mIdx, best, attempts, last, seen, text,
                   strategy_used, chineseColorMap, first, invoiceVars, apiVars>>

\* The loop goes on to the next strategy, or leaves the loops after the last.
NextStrategy ==
    IF sIdx < Len(strategies)
    THEN sIdx' = sIdx + 1 /\ mIdx' = 1 /\ pc' = "preprocess"
    ELSE UNCHANGED <<sIdx, mIdx>> /\ pc' = "select"

\* strategy_func(original_img.copy()): the preprocessing of the strategy in hand;
\* when it raises, the strategy is given up.
Preprocess ==
    /\ pc = "preprocess"
    /\ \E ok \in BOOLEAN :
          /\ IF ok THEN pc' = "attempt" /\ mIdx' = 1 /\ UNCHANGED sIdx
             ELSE NextStrategy
          /\ last' = [kind |-> "preprocess", raised |-> ~ok, text |-> "", confidence |-> 0]
          /\ seen' = [seen EXCEPT !.failed = @ \/ ~ok]
    /\ UNCHANGED <<tesseractAvailable, imageValid, img, best, attempts, text, strategy_used,
                   result, chineseColorMap, first, invoiceVars, apiVars>>

\* The text of a pass counts: it is not empty and, stripped, longer than
\* MinMeaningfulLen.
Meaningful(t) == t # "" /\ Len(Strip(t)) > MinMeaningfulLen

\* What the pass r adds to what the passes of the call have shown.
Noted(r) ==
    [meaningful |-> seen.meaningful \/ (~r.raised /\ Meaningful(r.text)),
     maxConfidence |-> IF ~r.raised /\ Meaningful(r.text) /\ r.confidence > seen.maxConfidence
                       THEN r.confidence ELSE seen.maxConfidence,
     failed |-> seen.failed \/ r.raised]

\* The step of the runner that was a recognition pass of the given kind.
Pass(kind, r) ==
    [kind |-> kind, raised |-> r.raised, text |-> r.text, confidence |-> r.confidence]

\* A faulty pass of the inner loop that lets the exception of
\* _run_ocr_with_config leave the runner.
AttemptAborting ==
    /\ pc = "attempt"
    /\ attempts' = attempts + 1
    /\ \E e \in EngineOutcomes :
          LET r == run_ocr_with_config(e)
              better == ~r.raised /\ Improves(r.text, r.confidence, best)
          IN  /\ last' = Pass("attempt", r)
              /\ seen' = Noted(r)
              /\ best' = IF better
                         THEN [text |-> r.text, confidence |-> r.confidence,
                               strategy |-> strategies[sIdx], psm |-> PSM_MODES[mIdx]]
                         ELSE best
              /\ IF r.raised
                 THEN /\ pc' = "raised"
                      /\ result' = Raised("OCRError: Failed to parse label")
                      /\ UNCHANGED <<sIdx, mIdx, text, strategy_used>>
                 ELSE /\ UNCHANGED result
                      /\ IF better /\ r.confidence > HighConfidence
                         THEN /\ pc' = "extract"
                              /\ text' = r.text
                              /\ strategy_used' =
                                     StrategyLabel(strategies[sIdx], PSM_MODES[mIdx])
                              /\ UNCHANGED <<sIdx, mIdx>>
                         ELSE /\ UNCHANGED <<text, strategy_used>>
                              /\ IF mIdx < Len(PSM_MODES)
                                 THEN mIdx' = mIdx + 1 /\ UNCHANGED <<sIdx, pc>>
                                 ELSE NextStrategy
    /\ UNCHANGED <<tesseractAvailable, imageValid, img, chineseColorMap, first, invoiceVars, apiVars>>

\* A faulty pass of the inner loop without the early return.
AttemptThrough ==
    /\ pc = "attempt"
    /\ attempts' = attempts + 1
    /\ \E e \in EngineOutcomes :
          LET r == run_ocr_with_config(e)
              better == ~r.raised /\ Improves(r.text, r.confidence, best)
          IN  /\ last' = Pass("attempt", r)
              /\ seen' = Noted(r)
              /\ best' = IF better
                         THEN [text |-> r.text, confidence |-> r.confidence,
                               strategy |-> strategies[sIdx], psm |-> PSM_MODES[mIdx]]
                         ELSE best
              /\ UNCHANGED <<text, strategy_used>>
              /\ IF mIdx < Len(PSM_MODES)
                 THEN mIdx' = mIdx + 1 /\ UNCHANGED <<sIdx, pc>>
                 ELSE NextStrategy
    /\ UNCHANGED <<tesseractAvailable, imageValid, img, result, chineseColorMap, first,
                   invoiceVars, apiVars>>

\* One pass of the inner loop: _run_ocr_with_config for the strategy and the mode
\* in hand, the update of the best candidate, and the early return.
Attempt ==
    /\ pc = "attempt"
    /\ attempts' = attempts + 1
    /\ \E e \in EngineOutcomes :
          LET r == run_ocr_with_config(e)
              better == ~r.raised /\ Improves(r.text, r.confidence, best)
          IN  /\ last' = Pass("attempt", r)
              /\ seen' = Noted(r)
              /\ best' = IF better
                         THEN [text |-> r.text, confidence |-> r.confidence,
                               strategy |-> strategies[sIdx], psm |-> PSM_MODES[mIdx]]
                         ELSE best
              /\ IF better /\ r.confidence > HighConfidence
                 THEN /\ pc' = "extract"
                      /\ text' = r.text
                      /\ strategy_used' = StrategyLabel(strategies[sIdx], PSM_MODES[mIdx])
                      /\ UNCHANGED <<sIdx, mIdx>>
                 ELSE /\ UNCHANGED <<text, strategy_used>>
                      /\ IF mIdx < Len(PSM_MODES)
                         THEN mIdx' = mIdx + 1 /\ UNCHANGED <<sIdx, pc>>
                         ELSE NextStrategy
    /\ UNCHANGED <<tesseractAvailable, imageValid, img, result, chineseColorMap, first,
                   invoiceVars, apiVars>>

\* After the loops: the best candidate is returned when there is one.
ReturnBest ==
    /\ pc = "select" /\ best.text # ""
    /\ pc' = "extract"
    /\ text' = best.text
    /\ strategy_used' = StrategyLabel(best.strategy, best.psm)
    /\ UNCHANGED <<tesseractAvailable, imageValid, img, sIdx, mIdx, best, attempts, last, seen,
                   result, chineseColorMap, first, invoiceVars, apiVars>>

\* After the loops, without a candidate: one image_to_string pass on the basic
\* image, with eng alone when the first raises; OCRError when that raises too, or
\* when _preprocess_basic does.
Fallback ==
    /\ pc = "select" /\ best.text = ""
    /\ attempts' = attempts + 1
    /\ \E how \in {"chi", "eng", "fail"}, t \in OcrTexts :
          IF how = "fail"
          THEN /\ pc' = "raised"
               /\ result' = Raised("OCRError: All OCR strategies failed")
               /\ last' = [kind |-> "fallback", raised |-> TRUE, text |-> "",
                           confidence |-> 0]
               /\ UNCHANGED <<text, strategy_used>>
          ELSE /\ pc' = "extract"
               /\ text' = t
               /\ strategy_used' = IF how = "chi" THEN "fallback" ELSE "fallback_eng"
               /\ last' = [kind |-> "fallback", raised |-> FALSE, text |-> t,
                           confidence |-> 0]
               /\ UNCHANGED result
    /\ UNCHANGED <<tesseractAvailable, imageValid, img, sIdx, mIdx, best, seen, chineseColorMap,
                   first, invoiceVars, apiVars>>

\* A faulty extraction that takes the colours it finds out of CHINESE_COLOR_MAP
\* (dict.pop for dict.get).
ExtractConsuming ==
    /\ pc = "extract"
    /\ result' = ExtractFields(text, strategy_used, chineseColorMap)
    /\ pc' = IF result'.raised THEN "raised" ELSE "returned"
    /\ chineseColorMap' = SelectSeq(chineseColorMap, LAMBDA pair : ~Contains(text, pair[1]))
    /\ UNCHANGED <<tesseractAvailable, imageValid, img, sIdx, mIdx, best, attempts, last, seen, text,
                   strategy_used, first, invoiceVars, apiVars>>

\* The rest of parse_label: the fields are read from the text, and the dict is
\* returned (or the exception of the extraction leaves as OCRError).
Extract ==
    /\ pc = "extract"
    /\ result' = ExtractFields(text, strategy_used, chineseColorMap)
    /\ pc' = IF result'.raised THEN "raised" ELSE "returned"
    /\ UNCHANGED <<tesseractAvailable, imageValid, img, sIdx, mIdx, best, attempts, last, seen, text,
                   strategy_used, chineseColorMap, first, invoiceVars, apiVars>>

Init ==
    /\ pc = "idle"
    /\ tesseractAvailable = TRUE /\ imageValid = TRUE
    /\ sIdx = 1 /\ mIdx = 1 /\ best = NoBest /\ attempts = 0
    /\ last = NoLast /\ seen = NoneSeen
    /\ text = "" /\ strategy_used = NULL /\ result = NoResult
    /\ chineseColorMap = CHINESE_COLOR_MAP
    /\ first = NoFirst
    /\ img = NoImage
    /\ InvoiceIdle
    /\ ApiIdle

Next ==
    \/ Start
    \/ CheckTesseract
    \/ ValidateImage
    \/ Preprocess
    \/ Attempt
    \/ ReturnBest
    \/ Fallback
    \/ Extract

\* The label pipeline: calls of parse_label, one after the other.
Spec == Init /\ [][Next]_vars

\* ------------------------------------ the field extraction on its own

\* The most words that stand around the words a family of label texts is about.
MaxExtra == 1

\* The orders in which the words of a set can stand.
Orders(words) ==
    LET k == Cardinality(words)
    IN  {w \in [1..k -> words] : \A a, b \in 1..k : a # b => w[a] # w[b]}

\* The texts made of all the words of required and at most n words of extras, in
\* any order, a blank between two.
TextsWith(required, extras, n) ==
    {JoinWords(w) : w \in UNION {Orders(required \cup e) :
                                  e \in {x \in SUBSET extras : Cardinality(x) <= n}}}

\* The words of a Sunlu label.
SunluWords == {"SUNLU", "PLA+", "Yellow", "1.75mm"}

\* What may stand around them: another brand, another material, another colour,
\* another diameter.
SunluExtras == {"eSUN", "ABS", "White", "2.85mm"}

\* The two PETG materials, and around them the four brands and a colour.
PetgWords == {"PETG", "PETG HF"}

PetgExtras == {"eSUN", "SUNLU", "Bambu Lab", "JAYO", "Black"}

\* Labels with a "(Diameter) X" field: the brands, the fields, a unit, a material.
DiameterWords ==
    {"Bambu Lab", "JAYO", "(Diameter) 4.75", "(Diameter) 4.85", "(Diameter) 2.9", "mm",
     "PLA"}

\* Labels whose diameter every branch of the extraction has a part in: numbers
\* after "(Diameter)" that float() rejects (1.7.5), that lie far from every
\* standard diameter (9) or on one (3.0), a diameter with its unit, one with a
\* blank before the unit, and one that lost its point.
OddDiameterWords ==
    {"Bambu Lab", "JAYO", "(Diameter) 1.7.5", "(Diameter) 9", "(Diameter) 3.0", "1.75mm",
     "3.0 mm", "285mm"}

\* The Bambu label whose only colour is the k-th phrase of CHINESE_COLOR_MAP.
GlyphLabel(k) == "Bambu Lab PLA " \o CHINESE_COLOR_MAP[k][1]

GlyphTexts == {GlyphLabel(k) : k \in 1..Len(CHINESE_COLOR_MAP)}

\* Labels without a colour word, whose colour is left to the pattern of the brand:
\* the first run of letters is the brand, an unlisted colour, a unit.
BrandColorTexts ==
    {"JAYO PETG 1.75mm", "175 Beige SUNLU PLA", "SUNLU PLA Beige", "1.75mm Beige eSUN PLA+",
     "175 Bambu Lab ASA"}

\* Labels that name one brand, next to the temperatures 230 and 260, a diameter and
\* the word filament, or next to a word that ends in e.
BrandNeighbourTexts ==
    {"SUNLU PLA+ 230-260 1.75mm Filament", "JAYO PETG 230 260 1.75mm Filament",
     "Blue SUNLU PLA 1.75mm", "Blue eSUN PLA+ 1.75mm"}

FieldTexts ==
    TextsWith(SunluWords, SunluExtras, MaxExtra)
        \cup GlyphTexts
        \cup BrandColorTexts
        \cup BrandNeighbourTexts
        \cup TextsWith(PetgWords, PetgExtras, MaxExtra)
        \cup TextsWith({}, DiameterWords, MaxExtra + 2)
        \cup TextsWith({}, OddDiameterWords, MaxExtra + 1)

\* The pipeline stands right after the recognition, with the text t in hand.
Recognized(t) ==
    /\ pc = "extract"
    /\ tesseractAvailable = TRUE /\ imageValid = TRUE
    /\ sIdx = 1 /\ mIdx = 1 /\ best = NoBest /\ attempts = 1
    /\ last = [kind |-> "fallback", raised |-> FALSE, text |-> t, confidence |-> 0]
    /\ seen = NoneSeen
    /\ text = t /\ strategy_used = "fallback" /\ result = NoResult
    /\ chineseColorMap = CHINESE_COLOR_MAP
    /\ first = NoFirst
    /\ img = NoImage
    /\ InvoiceIdle
    /\ ApiIdle

InitFields == \E t \in FieldTexts : Recognized(t)

\* The field extraction of parse_label, applied to every text of FieldTexts.
SpecFields == InitFields /\ [][Extract]_vars

\* --------------------------------------- the field extraction, run again

\* The texts of the repeated runs: a Bambu label with a Chinese colour (black),
\* one with two (red, black), a Sunlu label, an eSUN label with a barcode, a JAYO
\* label whose "(Diameter)" number float() rejects, and a text of no brand.
RepeatTexts ==
    {"Bambu Lab PLA ^|~> 1.75mm", "Bambu Lab PETG ^!~> ^|~>", "SUNLU PLA+ Yellow 1.75mm",
     "eSUN ABS White X00AB12ABC", "JAYO PETG (Diameter) 1.7.5", "PLA Black 1.75mm"}

\* The caller keeps the outcome of its first run, notes whether a run on another
\* text has ended since, and has the next text recognized.
Rescan ==
    /\ pc \in {"returned", "raised"}
    /\ first' = IF first.text = NULL
                THEN [text |-> text, result |-> result, between |-> FALSE]
                ELSE IF text # first.text THEN [first EXCEPT !.between = TRUE]
                ELSE first
    /\ text' \in RepeatTexts
    /\ pc' = "extract"
    /\ result' = NoResult
    /\ UNCHANGED <<tesseractAvailable, imageValid, img, sIdx, mIdx, best, attempts, last, seen,
                   strategy_used, chineseColorMap, invoiceVars, apiVars>>

InitRepeat == \E t \in RepeatTexts : Recognized(t)

NextRepeat == Extract \/ Rescan

\* Runs of the field extraction, one after the other, on the texts of RepeatTexts.
SpecRepeat == InitRepeat /\ [][NextRepeat]_vars

\* ------------------------------------------------ the invoice scanners

\* parse_bambu_invoice up to the call of _extract_bambu_products: the order number
\* and the date are read from the full text (strptime raises ValueError on a date
\* that does not exist), and the text is split into lines.
ParseBambuHeader ==
    /\ ipc = "header" /\ vendor = "bambu"
    /\ LET date_match == BambuInvoiceDate(full_text)
           parsed == IF date_match = NULL THEN [ok |-> TRUE, date |-> NoDate]
                     ELSE ParseIsoDate(date_match)
       IN  IF parsed.ok
           THEN /\ header' = [order_number |-> BambuOrderNumber(full_text),
                              order_date |-> parsed.date]
                /\ lines' = StrippedLines(full_text)
                /\ ipc' = "scan"
                /\ UNCHANGED ierror
           ELSE /\ ipc' = "raised"
                /\ ierror' = "ValueError"
                /\ UNCHANGED <<header, lines>>
    /\ UNCHANGED <<pdf, vendor, full_text, cursor, items, labelVars, apiVars>>

\* One pass of the while loop of _extract_bambu_products.
BambuStep ==
    /\ ipc = "scan" /\ vendor = "bambu" /\ cursor < Len(lines)
    /\ LET pass == BambuPass(lines, cursor)
       IN  IF pass.raised
           THEN ipc' = "raised" /\ ierror' = "IndexError" /\ UNCHANGED <<cursor, items>>
           ELSE /\ cursor' = pass.i
                /\ items' = IF pass.emit THEN Append(items, pass.item) ELSE items
                /\ UNCHANGED <<ipc, ierror>>
    /\ UNCHANGED <<pdf, vendor, full_text, lines, header, labelVars, apiVars>>

\* parse_amazon_invoice up to the call of _extract_amazon_products.
ParseAmazonHeader ==
    /\ ipc = "header" /\ vendor = "amazon"
    /\ header' = [order_number |-> AmazonOrderNumber(full_text),
                  order_date |-> AmazonOrderDate(full_text)]
    /\ lines' = NonEmpty(StrippedLines(full_text))
    /\ ipc' = "scan"
    /\ UNCHANGED <<pdf, vendor, full_text, cursor, items, ierror, labelVars, apiVars>>

\* A faulty pass that appends the item of a price line twice.
AmazonStepTwice ==
    /\ ipc = "scan" /\ vendor = "amazon" /\ cursor < Len(lines)
    /\ LET pass == AmazonPass(lines, cursor)
       IN  items' = IF pass.emit THEN Append(Append(items, pass.item), pass.item) ELSE items
    /\ cursor' = cursor + 1
    /\ UNCHANGED <<ipc, pdf, vendor, full_text, lines, header, ierror, labelVars, apiVars>>

\* One pass of the while loop of _extract_amazon_products.
AmazonStep ==
    /\ ipc = "scan" /\ vendor = "amazon" /\ cursor < Len(lines)
    /\ LET pass == AmazonPass(lines, cursor)
       IN  items' = IF pass.emit THEN Append(items, pass.item) ELSE items
    /\ cursor' = cursor + 1
    /\ UNCHANGED <<ipc, pdf, vendor, full_text, lines, header, ierror, labelVars, apiVars>>

\* The while loop of a scanner ends, and the parser returns its result.
ReturnItems ==
    /\ ipc = "scan" /\ cursor >= Len(lines)
    /\ ipc' = "done"
    /\ UNCHANGED <<pdf, vendor, full_text, lines, cursor, items, header, ierror, labelVars,
                   apiVars>>

\* The most lines of a generated invoice page.
MaxLines == 3

\* The pages of one to n different lines of a vocabulary.
PagesOver(vocabulary, n) ==
    UNION {Orders(e) : e \in {x \in SUBSET vocabulary : x # {} /\ Cardinality(x) <= n}}

\* Lines of a Bambu Lab invoice: product names, a SKU, quantity and price lines (one
\* with the quantity 0), a tax line, variants (one without a colour name), and a
\* date that does not exist.
BambuLines ==
    {"PLA Basic", "PETG HF", "SKU: PLA-001", "SPLFREE 2 $19.99", "SPL 0 $19.99", "WA CITY",
     "Variant: Orange (10300) / Refill /", "Variant: (10300)", "Invoice Date: 2024-02-30"}

\* The invoice page of the example of the specification.
ExamplePage ==
    <<"Order Number: ABC123", "Invoice Date: 2024-03-15", "PLA Basic", "WA STATE TAX",
      "SKU: PLA-001", "TAX", "SPLFREE 2 $19.99", "WA CITY",
      "Variant: Orange (10300) / Refill /">>

\* Lines of an Amazon order: descriptions without a colour, with one and with two
\* colours of the same length, a line that is no filament, the seller, a price, the order number and the date.
AmazonLines ==
    {"eSUN PLA+ Filament 1.75mm", "SUNLU PLA Deep Black", "PLA Pine Green and Deep Black",
     "PLA Cool White and Deep Black", "USB Cable", "Sold by: Shop", "$19.99", "Order # 112-3645497-2433833",
     "Order placed November 23, 2025"}

\* Bambu Lab invoices of more lines: an entry without quantity and variant before
\* a full entry, two full entries, an entry with a name line in small letters
\* before its quantity.
BambuOrders ==
    {<<"PLA Basic", "PETG HF", "SPLFREE 2 $19.99", "Variant: Orange (10300) / Refill /">>,
     <<"PLA Basic", "SPLFREE 2 $19.99", "Variant: Orange (10300) / Refill /", "PETG HF",
       "SPL 1 $24.99", "Variant: Black (10101)">>,
     <<"Invoice Date: 2024-13-45", "Order Number: ABC123", "PLA Basic", "SPLFREE 2 $19.99",
       "Variant: Orange (10300) / Refill /">>}

\* Amazon orders of more lines: two prices after one seller, two full entries, an
\* order date of no month.
AmazonOrders ==
    {<<"SUNLU PLA Deep Black", "Sold by: Shop", "$19.99", "$5.00">>,
     <<"SUNLU PLA Deep Black", "Sold by: Shop", "$19.99", "eSUN PLA+ Filament 1.75mm White",
       "Sold by: Shop", "$5.00">>,
     <<"Order # 112-3645497-2433833", "Order placed Foo 99, 2025", "SUNLU PLA Deep Black",
       "Sold by: Shop", "$19.99">>}

\* The text of a page of the given lines.
PageText(page) == SubSeq(JoinLines(page), 1, Len(JoinLines(page)) - 1)

\* A parser is handed the text of a one-page invoice.
InitInvoice ==
    /\ pc = "idle"
    /\ tesseractAvailable = TRUE /\ imageValid = TRUE
    /\ sIdx = 1 /\ mIdx = 1 /\ best = NoBest /\ attempts = 0
    /\ last = NoLast /\ seen = NoneSeen
    /\ text = "" /\ strategy_used = NULL /\ result = NoResult
    /\ chineseColorMap = CHINESE_COLOR_MAP
    /\ first = NoFirst
    /\ img = NoImage
    /\ ipc = "header" /\ lines = <<>> /\ cursor = 0 /\ items = <<>>
    /\ header = [order_number |-> NULL, order_date |-> NoDate]
    /\ ierror = NULL
    /\ ApiIdle
    /\ \/ /\ vendor = "bambu"
          /\ \E page \in PagesOver(BambuLines, MaxLines) \cup {ExamplePage} \cup BambuOrders :
                pdf = <<PageText(page)>> /\ full_text = JoinLines(pdf)
       \/ /\ vendor = "amazon"
          /\ \E page \in PagesOver(AmazonLines, MaxLines) \cup AmazonOrders :
                pdf = <<PageText(page)>> /\ full_text = JoinLines(pdf)

NextInvoice ==
    \/ ParseBambuHeader
    \/ BambuStep
    \/ ParseAmazonHeader
    \/ AmazonStep
    \/ ReturnItems

\* The invoice parsers, each on the pages generated for its vendor.
SpecInvoice == InitInvoice /\ [][NextInvoice]_vars

\* The label pipeline is not running.
LabelIdle ==
    /\ pc = "idle"
    /\ tesseractAvailable = TRUE /\ imageValid = TRUE
    /\ sIdx = 1 /\ mIdx = 1 /\ best = NoBest /\ attempts = 0
    /\ last = NoLast /\ seen = NoneSeen
    /\ text = "" /\ strategy_used = NULL /\ result = NoResult
    /\ chineseColorMap = CHINESE_COLOR_MAP
    /\ first = NoFirst
    /\ img = NoImage

\* ---- invoice_parser.py: detect_vendor and parse_invoice ----

\* The text detect_vendor looks at: that of the first page, "" for a PDF without pages.
FirstPageText(pages) == IF Len(pages) > 0 THEN pages[1] ELSE ""

\* detect_vendor, were it to look at the text of every page.
detect_vendor_every_page(pages) ==
    LET lower == Lower(JoinLines(pages))
    IN  IF Contains(lower, "bambulab") \/ Contains(lower, "bambu lab") THEN "bambu"
        ELSE IF Contains(lower, "amazon") THEN "amazon"
        ELSE NULL

\* detect_vendor: "bambu" before "amazon", by the keywords in the lowered first page.
detect_vendor(pages) ==
    LET lower == Lower(FirstPageText(pages))
    IN  IF Contains(lower, "bambulab") \/ Contains(lower, "bambu lab") THEN "bambu"
        ELSE IF Contains(lower, "amazon") THEN "amazon"
        ELSE NULL

\* parse_invoice up to the point where the vendor's parser has read the text of all
\* pages, or the ValueError for an unknown vendor.
ParseInvoice ==
    /\ ipc = "detect"
    /\ LET detected == detect_vendor(pdf)
       IN  IF detected \in {"bambu", "amazon"}
           THEN /\ vendor' = detected
                /\ full_text' = JoinLines(pdf)
                /\ ipc' = "header"
                /\ UNCHANGED ierror
           ELSE /\ ipc' = "raised"
                /\ ierror' = "ValueError: Unknown or unsupported invoice vendor"
                /\ UNCHANGED <<vendor, full_text>>
    /\ UNCHANGED <<pdf, lines, cursor, items, header, labelVars, apiVars>>

\* The most lines on the first page of a PDF handed to parse_invoice.
MaxFirstPageLines == 2

\* Lines of first pages: the vendor keywords in several spellings, two spellings that
\* are no keyword, another vendor, and lines of products.
DispatchLines ==
    {"Bambu Lab", "BAMBULAB Store", "Sold by Amazon.com", "AMAZON", "Bambu  Lab", "bambu-lab",
     "Prusa Research", "PLA Basic", "SUNLU PLA Deep Black $19.99"}

\* The pages that may follow the first.
LaterPages == {<<>>, <<"Bambu Lab">>, <<"Thank you for shopping at amazon">>}

\* The PDFs handed to parse_invoice: one without pages, and first pages of up to
\* MaxFirstPageLines lines, alone or followed by a page.
DispatchPdfs ==
    {<<>>} \cup
    {<<PageText(page)>> \o later : page \in PagesOver(DispatchLines, MaxFirstPageLines),
                                   later \in LaterPages}

\* parse_invoice is handed the bytes of a PDF.
InitDispatch ==
    /\ LabelIdle
    /\ ApiIdle
    /\ ipc = "detect" /\ vendor = NULL /\ full_text = ""
    /\ lines = <<>> /\ cursor = 0 /\ items = <<>>
    /\ header = [order_number |-> NULL, order_date |-> NoDate]
    /\ ierror = NULL
    /\ pdf \in DispatchPdfs

NextDispatch ==
    \/ ParseInvoice
    \/ ParseBambuHeader
    \/ BambuStep
    \/ ParseAmazonHeader
    \/ AmazonStep
    \/ ReturnItems

\* parse_invoice, from the detection of the vendor to the result of the vendor's parser.
SpecDispatch == InitDispatch /\ [][NextDispatch]_vars

\* ------------------------------------------------------- validation.py

MAX_IMAGE_SIZE == 15 * 1024 * 1024

MAX_PDF_SIZE == 20 * 1024 * 1024

MIN_IMAGE_DIMENSION == 100

MAX_IMAGE_DIMENSION == 8000

MAX_PDF_PAGES == 50

SUPPORTED_IMAGE_FORMATS == {"JPEG", "PNG", "WEBP", "JPG", "MPO", "TIFF", "DNG"}

SUPPORTED_IMAGE_MIME_TYPES ==
    {"image/jpeg", "image/jpg", "image/png", "image/webp", "image/mpo", "image/tiff",
     "image/x-adobe-dng"}

SUPPORTED_PDF_MIME_TYPES == {"application/pdf"}

\* The file extensions validate_image_file lets through.
ImageExtensions == {"jpg", "jpeg", "png", "webp", "mpo", "dng", "tiff", "tif"}

Max(S) == CHOOSE x \in S : \A y \in S : y <= x

\* A faulty validate_image_file without the two checks of the dimensions.
validate_image_file_any_size(f) ==
    IF f.size = 0 THEN "File is empty"
    ELSE IF f.size > MAX_IMAGE_SIZE THEN "File too large"
    ELSE IF f.content_type \notin {NULL, ""} /\ f.content_type \notin SUPPORTED_IMAGE_MIME_TYPES
         THEN "Unsupported image format"
    ELSE IF f.ext # NULL /\ f.ext \notin ImageExtensions THEN "Unsupported file extension"
    ELSE IF f.holds # "image" THEN "Invalid image file"
    ELSE IF f.format \notin SUPPORTED_IMAGE_FORMATS THEN "Unsupported image format"
    ELSE "ok"

\* validate_image_file: "ok" when it returns, else the start of the message of
\* the ValidationError it raises.  f.ext is the extension of the file name, NULL
\* without a file name; f.holds says what the bytes are.
validate_image_file(f) ==
    IF f.size = 0 THEN "File is empty"
    ELSE IF f.size > MAX_IMAGE_SIZE THEN "File too large"
    ELSE IF f.content_type \notin {NULL, ""} /\ f.content_type \notin SUPPORTED_IMAGE_MIME_TYPES
         THEN "Unsupported image format"
    ELSE IF f.ext # NULL /\ f.ext \notin ImageExtensions THEN "Unsupported file extension"
    ELSE IF f.holds # "image" THEN "Invalid image file"
    ELSE IF f.format \notin SUPPORTED_IMAGE_FORMATS THEN "Unsupported image format"
    ELSE IF Min({f.width, f.height}) < MIN_IMAGE_DIMENSION THEN "Image too small"
    ELSE IF Max({f.width, f.height}) > MAX_IMAGE_DIMENSION THEN "Image too large"
    ELSE "ok"

\* validate_pdf_file, in the same way.
validate_pdf_file(f) ==
    IF f.size = 0 THEN "File is empty"
    ELSE IF f.size > MAX_PDF_SIZE THEN "File too large"
    ELSE IF f.content_type \notin {NULL, ""} /\ f.content_type \notin SUPPORTED_PDF_MIME_TYPES
         THEN "Unsupported file format"
    ELSE IF f.ext # NULL /\ f.ext # "pdf" THEN "Unsupported file extension"
    ELSE IF f.holds # "pdf" THEN "Invalid PDF file"
    ELSE IF f.pages = 0 THEN "PDF has no pages"
    ELSE IF f.pages > MAX_PDF_PAGES THEN "PDF has too many pages"
    ELSE "ok"

\* -------------------------------------------- main.py: the upload endpoints

\* The validator an endpoint calls on its upload.
Validation(f) ==
    IF f.endpoint = "parse_label" THEN validate_image_file(f) ELSE validate_pdf_file(f)

\* The files of the uploads: sizes, content types, extensions, what the bytes
\* hold, and for an image its format and sides, for a PDF its number of pages.
UploadSizes ==
    {0, 1, MAX_IMAGE_SIZE, MAX_IMAGE_SIZE + 1, MAX_PDF_SIZE, MAX_PDF_SIZE + 1}

UploadSides ==
    {MIN_IMAGE_DIMENSION - 1, MIN_IMAGE_DIMENSION, MAX_IMAGE_DIMENSION,
     MAX_IMAGE_DIMENSION + 1}

UploadPages == {0, 1, MAX_PDF_PAGES, MAX_PDF_PAGES + 1}

Uploads ==
    {f \in [endpoint : {"parse_label", "parse_invoice", "import_from_invoice"},
            size : UploadSizes,
            content_type : {NULL, "image/jpeg", "application/pdf"},
            ext : {NULL, "jpg", "pdf"},
            holds : {"image", "pdf", "none"},
            format : {NULL, "JPEG", "GIF"},
            width : UploadSides \cup {0}, height : UploadSides \cup {0},
            pages : UploadPages] :
        /\ f.holds = "image" <=> f.format # NULL
        /\ f.holds = "image" <=> f.width # 0
        /\ f.holds = "image" <=> f.height # 0
        /\ f.holds # "pdf" => f.pages = 0
        /\ f.size = 0 => f.holds = "none"}

\* The answer of an endpoint: a status code, the "error" of the detail of an
\* HTTPException (NULL on success), and the body.
Answer(status, error, body) == [status |-> status, error |-> error, body |-> body]

\* A file is uploaded to one of the three endpoints.
ReceiveUpload ==
    /\ epc = "idle"
    /\ upload' \in Uploads
    /\ epc' = "validate"
    /\ UNCHANGED <<calls, response, job, products, spools, change_logs, clock, ledger,
                   labelVars, invoiceVars>>

\* The endpoint validates the upload, and answers 400 when the validator raises.
ValidateUpload ==
    /\ epc = "validate"
    /\ IF Validation(upload) = "ok"
       THEN epc' = "parse" /\ UNCHANGED response
       ELSE /\ epc' = "responded"
            /\ response' = Answer(400, IF upload.endpoint = "parse_label"
                                       THEN "Image validation failed"
                                       ELSE "PDF validation failed", Validation(upload))
    /\ UNCHANGED <<upload, calls, job, products, spools, change_logs, clock, ledger,
                   labelVars, invoiceVars>>

\* The endpoint parse_label calls LabelParser.parse_label: the dict is returned,
\* an OCRError is answered with 400, any other exception with 500.
CallParseLabel ==
    /\ epc = "parse" /\ upload.endpoint = "parse_label"
    /\ calls' = calls + 1
    /\ epc' = "responded"
    /\ \E outcome \in {"dict", "OCRError", "Exception"} :
          response' = IF outcome = "dict" THEN Answer(200, NULL, "result")
                      ELSE IF outcome = "OCRError"
                           THEN Answer(400, "OCR processing failed", NULL)
                      ELSE Answer(500, "Internal server error", NULL)
    /\ UNCHANGED <<upload, job, products, spools, change_logs, clock, ledger, labelVars,
                   invoiceVars>>

\* ------------------------------------------ main.py: import_from_invoice

\* The most items of an imported invoice.
MaxItems == 2

\* Items as the scanners emit them: two of the same product with different
\* quantities and prices, one that differs from them in the diameter alone, one
\* of another brand, and one with the quantity 0.
ImportItems ==
    {LineItem("Bambu Lab", "PLA BASIC", "Orange", 175, NULL, 2, PriceOf("19.99"), "PLA Basic"),
     LineItem("Bambu Lab", "PLA BASIC", "Orange", 175, NULL, 1, PriceOf("24.99"), "PLA Basic"),
     LineItem("Bambu Lab", "PLA BASIC", "Orange", 285, NULL, 1, PriceOf("19.99"), "PLA Basic"),
     LineItem("eSUN", "PLA+", "White", 175, NULL, 1, NoPrice, "eSUN PLA+ White..."),
     LineItem("Bambu Lab", "PETG HF", "Black", 175, NULL, 0, PriceOf("19.99"), "PETG HF")}

\* The invoice data parse_invoice may return to the import.
ImportInvoices ==
    {[order_number |-> "ABC123", order_date |-> [year |-> 2024, month |-> 3, day |-> 15],
      vendor |-> "Bambu Lab", items |-> list] :
        list \in UNION {[1..n -> ImportItems] : n \in 0..MaxItems}}

\* A row of the table product.
ProductRow(id, brand, line, material, color_name, diameter_mm, notes, barcode, sku, now) ==
    [id |-> id, brand |-> brand, line |-> line, material |-> material,
     color_name |-> color_name, diameter_mm |-> diameter_mm, notes |-> notes,
     barcode |-> barcode, sku |-> sku, created_at |-> now, updated_at |-> now]

\* A row of the table spool.
SpoolRow(id, product_id, purchase_date, seller, price, location, photo, status, order_id, now) ==
    [id |-> id, product_id |-> product_id, purchase_date |-> purchase_date,
     vendor |-> seller, price |-> price, storage_location |-> location,
     photo_path |-> photo, status |-> status, order_id |-> order_id,
     created_at |-> now, updated_at |-> now]

\* A row of the table spoolchangelog.
ChangeLogRow(id, spool_id, from_status, to_status, from_location, to_location, note, now) ==
    [id |-> id, spool_id |-> spool_id, from_status |-> from_status,
     to_status |-> to_status, from_location |-> from_location,
     to_location |-> to_location, note |-> note, created_at |-> now]

\* The query of the import: the product has the brand, the material, the colour
\* and the diameter of the item.
SameProduct(p, item) ==
    /\ p.brand = item.brand /\ p.material = item.material
    /\ p.color_name = item.color_name /\ p.diameter_mm = item.diameter_mm

\* n new spools of the product for the item, after the rows of table.
RECURSIVE WithSpools(_, _, _, _, _)
WithSpools(table, n, product_id, invoice, item) ==
    IF n = 0 THEN table
    ELSE WithSpools(Append(table, SpoolRow(Len(table) + 1, product_id, invoice.order_date,
                                           invoice.vendor, item.price, NULL, NULL,
                                           "in_stock", 0, clock)),
                    n - 1, product_id, invoice, item)

\* The import after one pass of its loop over the items: the product of the item
\* is product_id, created in this pass or found.
Imported(product_id, created, item) ==
    [job EXCEPT
        !.i = @ + 1,
        !.products = IF created
                     THEN Append(@, ProductRow(product_id, item.brand, item.product_line,
                                               item.material, item.color_name,
                                               item.diameter_mm, NULL, NULL, item.sku,
                                               clock))
                     ELSE @,
        !.products_created = IF created THEN @ + 1 ELSE @,
        !.spools = WithSpools(@, item.quantity, product_id, job.invoice, item),
        !.spools_created = @ + item.quantity,
        !.imported_items = Append(@, [product_id |-> product_id, brand |-> item.brand,
                                      material |-> item.material,
                                      color_name |-> item.color_name,
                                      quantity |-> item.quantity, price |-> item.price])]

\* The endpoints parse_invoice and import_from_invoice call
\* InvoiceParser.parse_invoice: a ValueError is answered with 400, any other
\* exception with 500; parse_invoice returns the result, the import goes on
\* with it.
CallParseInvoice ==
    /\ epc = "parse" /\ upload.endpoint \in {"parse_invoice", "import_from_invoice"}
    /\ calls' = calls + 1
    /\ \E outcome \in {"result", "ValueError", "Exception"}, invoice \in ImportInvoices :
          IF outcome = "result" /\ upload.endpoint = "import_from_invoice"
          THEN /\ epc' = "import"
               /\ job' = [NoJob EXCEPT !.invoice = invoice, !.products = products,
                                       !.spools = spools,
                                       !.before = [products |-> Len(products),
                                                   spools |-> Len(spools)]]
               /\ UNCHANGED response
          ELSE /\ epc' = "responded"
               /\ response' = IF outcome = "result" THEN Answer(200, NULL, "result")
                              ELSE IF outcome = "ValueError"
                                   THEN Answer(400, "Invoice parsing failed", NULL)
                              ELSE Answer(500, "Internal server error", NULL)
               /\ UNCHANGED job
    /\ UNCHANGED <<upload, products, spools, change_logs, clock, ledger, labelVars,
                   invoiceVars>>

\* A faulty pass of the loop that looks for the product among the rows the table
\* had when the request came, not among those of the session.
ImportItemUnflushed ==
    /\ epc = "import" /\ job.i < Len(job.invoice.items)
    /\ LET item == job.invoice.items[job.i + 1]
           existing == {k \in 1..Len(products) : SameProduct(products[k], item)}
       IN  IF existing # {}
           THEN \E k \in existing : job' = Imported(products[k].id, FALSE, item)
           ELSE job' = Imported(Len(job.products) + 1, TRUE, item)
    /\ UNCHANGED <<epc, upload, calls, response, products, spools, change_logs, clock,
                   ledger, labelVars, invoiceVars>>

\* One pass of the loop of import_from_invoice over the items: the product with
\* the four attributes of the item is looked up in the session (any such row may
\* be the first), created and flushed when there is none, and quantity spools
\* are added for it.
ImportItem ==
    /\ epc = "import" /\ job.i < Len(job.invoice.items)
    /\ LET item == job.invoice.items[job.i + 1]
           existing == {k \in 1..Len(job.products) : SameProduct(job.products[k], item)}
       IN  IF existing # {}
           THEN \E k \in existing : job' = Imported(job.products[k].id, FALSE, item)
           ELSE job' = Imported(Len(job.products) + 1, TRUE, item)
    /\ UNCHANGED <<epc, upload, calls, response, products, spools, change_logs, clock,
                   ledger, labelVars, invoiceVars>>

\* After the loop: session.commit() and the summary of the import.
CommitImport ==
    /\ epc = "import" /\ job.i = Len(job.invoice.items)
    /\ products' = job.products
    /\ spools' = job.spools
    /\ epc' = "responded"
    /\ response' = Answer(200, NULL, "imported")
    /\ UNCHANGED <<upload, calls, job, change_logs, clock, ledger, labelVars, invoiceVars>>

NextUpload ==
    \/ ReceiveUpload
    \/ ValidateUpload
    \/ CallParseLabel
    \/ CallParseInvoice
    \/ ImportItem
    \/ CommitImport

\* The three upload endpoints, each on every file of Uploads.
SpecUpload == Init /\ [][NextUpload]_vars

\* A PDF in good order, uploaded to import_from_invoice.
InvoiceUpload ==
    [endpoint |-> "import_from_invoice", size |-> 1, content_type |-> "application/pdf",
     ext |-> "pdf", holds |-> "pdf", format |-> NULL, width |-> 0, height |-> 0,
     pages |-> 1]

\* The tables before an import: empty; with the product of the first two items of
\* ImportItems and a spool of it, which create_spool has stored and update_spool
\* has set to used_up; with two rows of that product.
SeedProduct(id) ==
    ProductRow(id, "Bambu Lab", "PLA Basic", "PLA BASIC", "Orange", 175, NULL, NULL, NULL, 0)

SeedTables ==
    {[products |-> <<>>, spools |-> <<>>, change_logs |-> <<>>],
     [products |-> <<SeedProduct(1)>>,
      spools |-> <<SpoolRow(1, 1, NoDate, "Bambu", PriceOf("25.5"), "Shelf A2", NULL,
                            "used_up", 0, 0)>>,
      change_logs |-> <<ChangeLogRow(1, 1, NULL, "in_stock", NULL, "Shelf A2",
                                     "Spool created", 0),
                        ChangeLogRow(2, 1, "in_stock", "used_up", NULL, NULL, NULL, 0)>>],
     [products |-> <<SeedProduct(1), SeedProduct(2)>>, spools |-> <<>>,
      change_logs |-> <<>>]}

\* import_from_invoice has validated its upload, with one of the seed tables in
\* the database.
InitImport ==
    /\ LabelIdle /\ InvoiceIdle
    /\ epc = "parse" /\ upload = InvoiceUpload /\ calls = 0 /\ response = NoResponse
    /\ job = NoJob
    /\ \E seed \in SeedTables :
          products = seed.products /\ spools = seed.spools /\ change_logs = seed.change_logs
    /\ clock = 1 /\ ledger = <<>>

NextImport ==
    \/ CallParseInvoice
    \/ ImportItem
    \/ CommitImport

\* import_from_invoice from the call of the parser on.
SpecImport == InitImport /\ [][NextImport]_vars

\* ---- main.py: the endpoints of products and spools ----

\* The fields of ProductBase, which ProductCreate and ProductUpdate take.
ProductFields ==
    {"brand", "line", "material", "color_name", "diameter_mm", "notes", "barcode", "sku"}

\* The fields of SpoolBase, which SpoolCreate takes.
SpoolFields ==
    {"product_id", "purchase_date", "vendor", "price", "storage_location", "photo_path",
     "status"}

\* The fields SpoolUpdate takes.
SpoolUpdateFields == SpoolFields \cup {"order_id"}

\* None, for a field of a product or a spool.
NoneOf(f) ==
    CASE f = "diameter_mm" -> NoDiameter
      [] f = "price" -> NoPrice
      [] f = "purchase_date" -> NoDate
      [] f \in {"product_id", "order_id"} -> 0
      [] OTHER -> NULL

\* The value model_dump gives for a field of a create request: that of the
\* body, else the default of the schema.
Dumped(body, f) ==
    IF f \in DOMAIN body THEN body[f]
    ELSE IF f = "status" THEN "in_stock"
    ELSE NoneOf(f)

\* A faulty update that dumps the request with the fields it does not set.
UpdatedWithUnset(row, body, now) ==
    [f \in DOMAIN row |->
        IF f = "updated_at" THEN now
        ELSE IF f \in DOMAIN body THEN body[f]
        ELSE IF f \in {"id", "created_at"} THEN row[f]
        ELSE NoneOf(f)]

\* The row after update_product or update_spool: the fields the body sets
\* (model_dump(exclude_unset=True)) are assigned, and updated_at is the time of
\* the call.
Updated(row, body, now) ==
    [f \in DOMAIN row |->
        IF f = "updated_at" THEN now
        ELSE IF f \in DOMAIN body THEN body[f]
        ELSE row[f]]

\* The rows of spoolchangelog of a spool.
LogsOf(logs, spool_id) == {logs[k] : k \in {j \in 1..Len(logs) : logs[j].spool_id = spool_id}}

\* _build_spool_detail: the spool with its change logs, the newest first; logs
\* of the same time may come in any order.
SpoolDetails(spool, logs) ==
    {[f \in DOMAIN spool \cup {"change_logs"} |->
        IF f = "change_logs" THEN order ELSE spool[f]] :
     order \in {o \in Orders(LogsOf(logs, spool.id)) :
                    \A a, b \in 1..Len(o) : a < b => o[a].created_at >= o[b].created_at}}

\* A request without a file, to the endpoint of the name.
Request(endpoint) == [NoUpload EXCEPT !.endpoint = endpoint]

\* A call recorded in the ledger.
Call(op, table, id, body) == [op |-> op, table |-> table, id |-> id, body |-> body]

\* The most calls of create and update endpoints.
MaxWrites == 3

\* The last tick of the clock.
MaxClock == 2

\* The times datetime.now may give: the clock has gone on since the last call, or not.
Now == {t \in {clock, clock + 1} : t <= MaxClock}

\* The bodies of POST /api/v1/products: the required fields alone, and all fields.
ProductCreates ==
    {[brand |-> "Bambu", material |-> "PLA", color_name |-> "White", diameter_mm |-> 175],
     [brand |-> "Sunlu", line |-> "PLA+", material |-> "PLA", color_name |-> "Yellow",
      diameter_mm |-> 175, notes |-> "Test product", barcode |-> "1234567890",
      sku |-> "SUN-PLA-YEL"]}

\* The bodies of PUT /api/v1/products/{id}: a field and a null, no field.
ProductUpdates == {[color_name |-> "Ivory", line |-> NULL], [f \in {} |-> NULL]}

\* The bodies of POST /api/v1/spools: the product alone, and the spool of the test.
SpoolCreates ==
    {[product_id |-> 1],
     [product_id |-> 1, vendor |-> "Bambu", price |-> [num |-> 255, den |-> 10],
      storage_location |-> "Shelf A2", status |-> "in_stock"]}

\* The bodies of PUT /api/v1/spools/{id}: the status alone, the location alone, a
\* null and the order, no field.
SpoolUpdates ==
    {[status |-> "used_up"], [storage_location |-> "Shelf B1"],
     [vendor |-> NULL, order_id |-> 7], [f \in {} |-> NULL]}

\* The API takes a request when it is not at work on another.
Ready == epc \in {"idle", "responded"}

create_product ==
    /\ Ready /\ Len(ledger) < MaxWrites
    /\ \E product_in \in ProductCreates, now \in Now :
          LET id == Len(products) + 1
              product == ProductRow(id, Dumped(product_in, "brand"),
                                    Dumped(product_in, "line"),
                                    Dumped(product_in, "material"),
                                    Dumped(product_in, "color_name"),
                                    Dumped(product_in, "diameter_mm"),
                                    Dumped(product_in, "notes"),
                                    Dumped(product_in, "barcode"),
                                    Dumped(product_in, "sku"), now)
          IN  /\ products' = Append(products, product)
              /\ response' = Answer(200, NULL, product)
              /\ ledger' = Append(ledger, Call("create", "product", id, product_in))
              /\ clock' = now
    /\ epc' = "responded" /\ upload' = Request("create_product")
    /\ UNCHANGED <<calls, job, spools, change_logs, labelVars, invoiceVars>>

get_product ==
    /\ Ready
    /\ \E product_id \in 1..(Len(products) + 1) :
          response' = IF product_id <= Len(products)
                      THEN Answer(200, NULL, products[product_id])
                      ELSE Answer(404, "Product not found", NULL)
    /\ epc' = "responded" /\ upload' = Request("get_product")
    /\ UNCHANGED <<calls, job, products, spools, change_logs, clock, ledger, labelVars,
                   invoiceVars>>

update_product ==
    /\ Ready /\ Len(ledger) < MaxWrites
    /\ \E product_id \in 1..(Len(products) + 1) :
          IF product_id <= Len(products)
          THEN \E product_in \in ProductUpdates, now \in Now :
               LET product == Updated(products[product_id], product_in, now)
               IN  /\ products' = [products EXCEPT ![product_id] = product]
                   /\ response' = Answer(200, NULL, product)
                   /\ ledger' = Append(ledger,
                                       Call("update", "product", product_id, product_in))
                   /\ clock' = now
          ELSE /\ response' = Answer(404, "Product not found", NULL)
               /\ UNCHANGED <<products, ledger, clock>>
    /\ epc' = "responded" /\ upload' = Request("update_product")
    /\ UNCHANGED <<calls, job, spools, change_logs, labelVars, invoiceVars>>

\* create_spool: the spool, and the change log of its first state.
create_spool ==
    /\ Ready /\ Len(ledger) < MaxWrites
    /\ \E spool_in \in SpoolCreates, now \in Now :
          LET id == Len(spools) + 1
              spool == SpoolRow(id, Dumped(spool_in, "product_id"),
                                Dumped(spool_in, "purchase_date"),
                                Dumped(spool_in, "vendor"), Dumped(spool_in, "price"),
                                Dumped(spool_in, "storage_location"),
                                Dumped(spool_in, "photo_path"),
                                Dumped(spool_in, "status"), NoneOf("order_id"), now)
          IN  /\ spools' = Append(spools, spool)
              /\ change_logs' = Append(change_logs,
                                       ChangeLogRow(Len(change_logs) + 1, id, NULL,
                                                    spool.status, NULL,
                                                    spool.storage_location,
                                                    "Spool created", now))
              /\ response' = Answer(200, NULL, spool)
              /\ ledger' = Append(ledger, Call("create", "spool", id, spool_in))
              /\ clock' = now
    /\ epc' = "responded" /\ upload' = Request("create_spool")
    /\ UNCHANGED <<calls, job, products, labelVars, invoiceVars>>

get_spool_with_history ==
    /\ Ready
    /\ \E spool_id \in 1..(Len(spools) + 1) :
          IF spool_id <= Len(spools)
          THEN \E detail \in SpoolDetails(spools[spool_id], change_logs) :
                  response' = Answer(200, NULL, detail)
          ELSE response' = Answer(404, "Spool not found", NULL)
    /\ epc' = "responded" /\ upload' = Request("get_spool_with_history")
    /\ UNCHANGED <<calls, job, products, spools, change_logs, clock, ledger, labelVars,
                   invoiceVars>>

\* update_spool: the fields of the body are assigned, and a change of the status
\* or of the location is written to the change log.
update_spool ==
    /\ Ready /\ Len(ledger) < MaxWrites
    /\ \E spool_id \in 1..(Len(spools) + 1) :
          IF spool_id <= Len(spools)
          THEN \E spool_in \in SpoolUpdates, now \in Now :
               LET previous == spools[spool_id]
                   spool == Updated(previous, spool_in, now)
                   status_changed ==
                       "status" \in DOMAIN spool_in /\ previous.status # spool.status
                   location_changed ==
                       /\ "storage_location" \in DOMAIN spool_in
                       /\ previous.storage_location # spool.storage_location
                   logs == IF status_changed \/ location_changed
                           THEN Append(change_logs,
                                    ChangeLogRow(Len(change_logs) + 1, spool_id,
                                        IF status_changed THEN previous.status ELSE NULL,
                                        IF status_changed THEN spool.status ELSE NULL,
                                        IF location_changed THEN previous.storage_location
                                        ELSE NULL,
                                        IF location_changed THEN spool.storage_location
                                        ELSE NULL,
                                        NULL, now))
                           ELSE change_logs
               IN  /\ spools' = [spools EXCEPT ![spool_id] = spool]
                   /\ change_logs' = logs
                   /\ \E detail \in SpoolDetails(spool, logs) :
                         response' = Answer(200, NULL, detail)
                   /\ ledger' = Append(ledger, Call("update", "spool", spool_id, spool_in))
                   /\ clock' = now
          ELSE /\ response' = Answer(404, "Spool not found", NULL)
               /\ UNCHANGED <<spools, change_logs, ledger, clock>>
    /\ epc' = "responded" /\ upload' = Request("update_spool")
    /\ UNCHANGED <<calls, job, products, labelVars, invoiceVars>>

\* No request has been served, and neither parser is at work.
InitCrud == LabelIdle /\ InvoiceIdle /\ ApiIdle

NextCrud ==
    \/ create_product
    \/ get_product
    \/ update_product
    \/ create_spool
    \/ get_spool_with_history
    \/ update_spool

\* The endpoints of products and spools, called in any order.
SpecCrud == InitCrud /\ [][NextCrud]_vars

\* ------------------------------------------- properties of the label pipeline

\* C7: with the recognizer available, a call of parse_label on bytes that are no
\* image makes no recognition attempt, runs no extraction and returns no dict: it
\* ends raising the OCRError of _validate_image.
InvalidImageRaises ==
    (tesseractAvailable /\ ~imageValid) =>
        /\ pc \in {"check", "validate", "raised"}
        /\ attempts = 0
        /\ pc = "raised" => result.raised /\ result.error = "OCRError: Invalid image format"

\* C7: a call on bytes that are no image has ended.
InvalidImageRaised == pc = "raised" /\ tesseractAvailable /\ ~imageValid

\* C10: the ocr_confidence of a returned dict is the confidence of the attempt
\* whose text was selected (the best candidate, named in strategy_used).
ConfidenceOfWinner ==
    (pc = "returned" /\ best.text # "") =>
        /\ result.strategy_used = StrategyLabel(best.strategy, best.psm)
        /\ result.ocr_confidence = best.confidence

\* The latest step was a pass of the loops whose text counts and whose confidence
\* lies above HighConfidence.
HighConfidencePass ==
    /\ last.kind = "attempt" /\ ~last.raised
    /\ Meaningful(last.text) /\ last.confidence > HighConfidence

\* The loops have run to their end, and the runner has returned the candidate
\* it kept.
LoopEnded ==
    pc = "extract" /\ last.kind \in {"attempt", "preprocess"} /\ ~HighConfidencePass

\* C17: when the loops end without an early return, the returned text is the one
\* of the kept candidate, and its confidence is the highest of all the passes
\* that read more than MinMeaningfulLen characters.
HighestConfidenceReturned ==
    LoopEnded => text = best.text /\ best.confidence = seen.maxConfidence

\* The runner has handed on the text and the label of the latest pass.
LatestPassReturned ==
    /\ pc \in {"extract", "returned", "raised"}
    /\ text = last.text
    /\ strategy_used = StrategyLabel(strategies[sIdx], PSM_MODES[mIdx])

\* C18, as the specification states it: once a pass reports a confidence above
\* HighConfidence, the runner returns its text and label, and no other pass
\* follows it.
HighConfidenceReturns ==
    (last.kind = "attempt" /\ ~last.raised /\ last.confidence > HighConfidence)
        => LatestPassReturned

\* C18, corrected: once a pass that read more than MinMeaningfulLen characters
\* reports a confidence above HighConfidence, the runner returns its text and
\* label, and no other pass follows it.
HighConfidenceTextReturns == HighConfidencePass => LatestPassReturned

\* C18: the runner has returned after the second pass of the first strategy, with
\* fourteen combinations untried.
ReturnedEarly ==
    pc = "extract" /\ HighConfidencePass /\ sIdx = 1 /\ mIdx = 2 /\ attempts = 2

\* The runner has ended: with the fallback pass, or with a text the loops gave.
RunnerEnded ==
    \/ last.kind = "fallback"
    \/ pc \in {"extract", "returned"} /\ last.kind \in {"attempt", "preprocess"}

\* C19: the fallback pass runs if and only if no pass of the loops read more than
\* MinMeaningfulLen characters.
FallbackIffNothingRead ==
    RunnerEnded => (last.kind = "fallback" <=> ~seen.meaningful)

\* The place of the loops after the one in hand, when the step in hand gives
\* nothing.
GoesOn ==
    IF pc = "attempt" /\ mIdx < Len(PSM_MODES)
    THEN pc' = "attempt" /\ sIdx' = sIdx /\ mIdx' = mIdx + 1
    ELSE IF sIdx < Len(strategies)
         THEN pc' = "preprocess" /\ sIdx' = sIdx + 1
         ELSE pc' = "select"

\* C20: a preprocessing or a pass that fails leaves the kept candidate as it is
\* and the loops go on with the next combination; the runner raises only after
\* its fallback pass has failed.
FailuresPassedOver ==
    /\ [][(pc \in {"preprocess", "attempt"} /\ last'.raised)
             => (best' = best /\ result' = result /\ GoesOn)]_vars
    /\ [](pc = "raised" /\ last.kind # "none" => last.kind = "fallback" /\ last.raised)

\* C20: a call in which a preprocessing or a pass failed has returned the dict of
\* a text that a later pass of the loops read.
ReturnedAfterFailure ==
    /\ pc = "returned" /\ seen.failed /\ last.kind = "attempt" /\ ~last.raised
    /\ result.brand # NULL /\ result.raw_text = last.text

\* ------------------------------------------ properties of the field extraction

\* The fields of a returned dict are those of a Sunlu PLA+ label.
SunluFields(r) ==
    /\ ~r.raised
    /\ r.brand = "Sunlu" /\ r.material = "PLA+" /\ r.color_name = "Yellow"
    /\ r.diameter_mm = 175 /\ r.barcode = NULL

\* The text holds the four words of the Sunlu label.
HasSunluWords(t) == \A w \in SunluWords : Contains(t, w)

\* No barcode pattern matches the text, whatever the brand.
NoBarcodePattern(t) ==
    \A brand \in {"bambu", "esun", "jayo", "sunlu"} : ExtractBarcode(brand, t) = NULL

\* The word a of t stands before the first occurrence of b, if b occurs at all.
StandsBefore(t, a, b) == Find(t, b) = 0 \/ Find(t, a) <= Find(t, b)

\* The run on the text has ended.
Extracted == pc \in {"returned", "raised"}

SunluLabelLeads(t) ==
    /\ \A name \in {"bambu", "esun", "jayo"} :
          ~Contains(RemoveChars(Lower(t), " \n-_"), name)
    /\ \A mark \in {"e.sun", "230", "260"} : ~Contains(Lower(t), mark)
    /\ \A m \in {"SILK", "PLA", "ABS", "PETG", "TPU"} : StandsBefore(Upper(t), "PLA+", m)
    /\ \A d \in {"2.85", "3.0"} : StandsBefore(t, "1.75mm", d)

HasBothPetg(t) ==
    /\ Contains(t, "PETG HF")
    /\ \E i \in 1..Len(t) : LitAt(t, i, "PETG") /\ ~LitAt(t, i, "PETG HF")

\* C3: for every brand, a text of that brand with both a PETG and a PETG HF token,
\* in either order, gets the material PETG HF.
CompoundPetgWins ==
    (pc = "returned" /\ result.brand # NULL /\ HasBothPetg(text))
        => result.material = "PETG HF"

\* The diameter of the text comes from its "(Diameter) X" field: no pattern tried
\* before it matches.
DiameterFromField(brand, t) ==
    /\ DiameterSearch(t, DiameterUnits(brand), FALSE) = 0
    /\ DiameterSearch(Lower(t), <<"mm", HaoMi>>, TRUE) = 0
    /\ ~MisreadDiameter(t, "1", "75") /\ ~MisreadDiameter(t, "2", "85")
    /\ DiameterSection(t) # NULL

\* C4: when the diameter is taken from the "(Diameter) X" field, X = 4.75 gives
\* 1.75 and X = 4.85 gives 2.85.
DiameterFieldCorrected ==
    (pc = "returned" /\ result.brand # NULL /\ DiameterFromField(detect_brand(text), text))
        => /\ DiameterSection(text) = "4.75" => result.diameter_mm = 175
           /\ DiameterSection(text) = "4.85" => result.diameter_mm = 285

\* C11: once a text is recognized, the field extraction never raises: every run
\* ends with a returned dict.
ExtractionNeverRaises == Extracted => ~result.raised

\* The standard diameters, in hundredths of a millimetre, and no diameter.
StandardDiameters == {DiameterValues[k] : k \in 1..3} \cup {NoDiameter}

\* C16: the diameter_mm of every returned dict is 1.75, 2.85, 3.0 or absent,
\* whichever branch of the extraction set it.
DiameterIsStandard == pc = "returned" => result.diameter_mm \in StandardDiameters

\* C16: a diameter read after "(Diameter)" that is no standard one (2.9) has been
\* moved to the closest standard diameter.
NearestDiameterTaken ==
    /\ pc = "returned" /\ result.brand = "JAYO"
    /\ DiameterFromField("jayo", text) /\ DiameterSection(text) = "2.9"
    /\ result.diameter_mm = 285

\* The five fields of an outcome, and whether the run raised.
Fields(r) == <<r.raised, r.brand, r.material, r.color_name, r.diameter_mm, r.barcode>>

PriceIs(p, num, den) == p.den # 0 /\ p.num * den = num * p.den

\* The Bambu Lab parser has ended on the example page.
ExampleEnded ==
    vendor = "bambu" /\ full_text = JoinLines(ExamplePage) /\ ipc \in {"done", "raised"}

\* C1: parsing the example page as a Bambu Lab invoice returns the order number
\* ABC123, the date 2024-03-15 and exactly one item: PLA BASIC, Orange, quantity 2,
\* price 19.99.
ExampleInvoiceParsed ==
    ExampleEnded =>
        /\ ipc = "done"
        /\ header.order_number = "ABC123"
        /\ header.order_date = [year |-> 2024, month |-> 3, day |-> 15]
        /\ Len(items) = 1
        /\ items[1].material = "PLA BASIC" /\ items[1].color_name = "Orange"
        /\ items[1].quantity = 2 /\ PriceIs(items[1].price, 1999, 100)

\* C1: the parser has returned from the example page.
ExampleInvoiceReturned == ExampleEnded /\ ipc = "done"

\* C5: every item on the list of either scanner has a material and a colour name
\* that was read from the text.
NoUnresolvedColor ==
    \A k \in 1..Len(items) :
        /\ items[k].material \notin {NULL, ""}
        /\ items[k].color_name \notin {NULL, "", "Unknown"}

\* C9: every item on the list of either scanner has a quantity of at least 1.
QuantityAtLeastOne == \A k \in 1..Len(items) : items[k].quantity >= 1

\* The colour of the item is a longest colour name of its description (the
\* descriptions of the model are short enough for product_line to hold them whole).
LongestColor(item) ==
    LET desc_lower == Lower(item.product_line)
    IN  /\ Contains(desc_lower, Lower(item.color_name))
        /\ \A k \in 1..Len(colors) :
              Contains(desc_lower, colors[k]) => Len(colors[k]) <= Len(item.color_name)

\* The description of the item holds the given colour name.
Describes(item, color) == Contains(Lower(item.product_line), color)

\* C6, as the specification states it: the colour of an Amazon item is a longest
\* colour name of its description, and a description with black and deep black
\* gets Deep Black.
DeepBlackWins ==
    vendor = "amazon" =>
        \A k \in 1..Len(items) :
            (Describes(items[k], "black") /\ Describes(items[k], "deep black"))
                => LongestColor(items[k]) /\ items[k].color_name = "Deep Black"

\* C6, corrected: the colour of an Amazon item is a longest colour name of its
\* description, the first in the order of the list among those of equal length: a
\* description with black and deep black gets Deep Black unless it also holds pine
\* green, which is as long and stands earlier in the list.
DeepBlackWinsButPineGreen ==
    vendor = "amazon" =>
        \A k \in 1..Len(items) :
            (Describes(items[k], "black") /\ Describes(items[k], "deep black"))
                => /\ LongestColor(items[k])
                   /\ items[k].color_name =
                          IF Describes(items[k], "pine green") THEN "Pine Green"
                          ELSE "Deep Black"

\* C6: the scanner has returned an item whose description holds deep black and
\* cool white, and no pine green.
DeepBlackChosen ==
    /\ vendor = "amazon" /\ ipc = "done"
    /\ \E k \in 1..Len(items) :
          /\ Describes(items[k], "deep black") /\ Describes(items[k], "cool white")
          /\ ~Describes(items[k], "pine green")
          /\ items[k].color_name = "Deep Black"

\* --------------------------------------------- properties of the endpoints

\* The file is one the validators must refuse: an image that is empty, larger
\* than 15 MB or with a side below 100 px or above 8000 px; a PDF that is empty,
\* larger than 20 MB or of more than 50 pages.
Refused(f) ==
    IF f.endpoint = "parse_label"
    THEN \/ f.size = 0 \/ f.size > MAX_IMAGE_SIZE
         \/ /\ f.holds = "image"
            /\ \/ Min({f.width, f.height}) < MIN_IMAGE_DIMENSION
               \/ Max({f.width, f.height}) > MAX_IMAGE_DIMENSION
    ELSE \/ f.size = 0 \/ f.size > MAX_PDF_SIZE
         \/ f.holds = "pdf" /\ f.pages > MAX_PDF_PAGES

RECURSIVE TotalQuantity(_)
TotalQuantity(list) ==
    IF list = <<>> THEN 0 ELSE Head(list).quantity + TotalQuantity(Tail(list))

\* The index of the item for which the n-th spool of an import is made, the
\* spools being made item by item.
RECURSIVE Owner(_, _)
Owner(list, n) ==
    IF n <= Head(list).quantity THEN 1
    ELSE 1 + Owner(Tail(list), n - Head(list).quantity)

\* An import has ended well.
ImportDone == epc = "responded" /\ response.status = 200 /\ response.body = "imported"

\* C14: after an import that ended well, the new spools are, item by item,
\* quantity spools of a product with the brand, material, colour and diameter of
\* the item, with the date and vendor of the invoice and the price of the item;
\* a product was created only for an item whose four attributes no product had,
\* those created earlier in the same import included; spools_created is the sum
\* of the quantities.
ImportCreatesSpools ==
    ImportDone =>
        LET list == job.invoice.items
            made == Len(spools) - job.before.spools
        IN  /\ made = TotalQuantity(list)
            /\ job.spools_created = made
            /\ \A n \in 1..made :
                  LET item == list[Owner(list, n)]
                      spool == spools[job.before.spools + n]
                  IN  /\ spool.product_id \in 1..Len(products)
                      /\ products[spool.product_id].id = spool.product_id
                      /\ SameProduct(products[spool.product_id], item)
                      /\ spool.purchase_date = job.invoice.order_date
                      /\ spool.vendor = job.invoice.vendor
                      /\ spool.price = item.price
                      /\ spool.status = "in_stock"
            /\ job.products_created = Len(products) - job.before.products
            /\ \A k \in (job.before.products + 1)..Len(products) :
                  /\ \E n \in 1..Len(list) : SameProduct(products[k], list[n])
                  /\ \A j \in 1..(k - 1) :
                        ~SameProduct(products[j], [brand |-> products[k].brand,
                                                   material |-> products[k].material,
                                                   color_name |-> products[k].color_name,
                                                   diameter_mm |-> products[k].diameter_mm])

\* C14: an invoice with two items of one product, of quantities 2 and 1, has
\* been imported into empty tables: one product and three spools were created.
TwoItemsOneProduct ==
    /\ ImportDone /\ job.before.products = 0
    /\ Len(job.invoice.items) = 2
    /\ job.invoice.items[1].quantity = 2 /\ job.invoice.items[2].quantity = 1
    /\ SameProduct(job.invoice.items[1], job.invoice.items[2])
    /\ Len(products) = 1 /\ Len(spools) = 3 /\ job.spools_created = 3

\* The first page of the PDF has none of the vendor keywords, in any case of letters.
NoVendorKeyword ==
    LET lower == Lower(FirstPageText(pdf))
    IN  ~Contains(lower, "bambulab") /\ ~Contains(lower, "bambu lab") /\ ~Contains(lower, "amazon")

\* C13: parse_invoice on a PDF whose first page has no vendor keyword ends with the
\* ValueError for an unsupported vendor; no parser has read the text, no scanner has
\* taken a line, and no result, however empty, is returned.
UnknownVendorRaises ==
    (ipc # "detect" /\ NoVendorKeyword) =>
        /\ ipc = "raised"
        /\ ierror = "ValueError: Unknown or unsupported invoice vendor"
        /\ vendor = NULL /\ full_text = ""
        /\ lines = <<>> /\ cursor = 0 /\ items = <<>>
        /\ header = [order_number |-> NULL, order_date |-> NoDate]

\* parse_invoice has raised for a PDF that names a vendor only on its second page.
KeywordOnLaterPageRaised ==
    /\ ipc = "raised" /\ ierror = "ValueError: Unknown or unsupported invoice vendor"
    /\ Len(pdf) = 2 /\ NoVendorKeyword
    /\ Contains(Lower(pdf[2]), "bambu lab")
    /\ FirstPageText(pdf) # ""

\* The calls that gave a value to the field f of a record.
Suppliers(table, id, f) ==
    {k \in 1..Len(ledger) :
        ledger[k].table = table /\ ledger[k].id = id /\ f \in DOMAIN ledger[k].body}

\* The value the latest of these calls gave.
LatestGiven(table, id, f) == ledger[Max(Suppliers(table, id, f))].body[f]

\* What a GET by id returned has, for every field a call gave a value to, the value of
\* the latest such call.
ReadsLatest ==
    \A table \in {"product", "spool"} :
        (/\ upload.endpoint = (IF table = "product" THEN "get_product"
                                ELSE "get_spool_with_history")
         /\ response.status = 200) =>
            \A f \in DOMAIN response.body :
                Suppliers(table, response.body.id, f) # {} =>
                    response.body[f] = LatestGiven(table, response.body.id, f)

\* What a GET by id shows of a record of the tables: the row, and of a spool its
\* change logs.
Shown(product_rows, spool_rows, logs, table, id) ==
    IF table = "product" THEN product_rows[id]
    ELSE [f \in DOMAIN spool_rows[id] \cup {"change_logs"} |->
            IF f = "change_logs" THEN LogsOf(logs, id) ELSE spool_rows[id][f]]

\* A step that is a successful PUT keeps, of the given fields, those the body does
\* not mention.
PutKeeps(fields) ==
    (Len(ledger') = Len(ledger) + 1 /\ ledger'[Len(ledger')].op = "update") =>
        LET call == ledger'[Len(ledger')]
            before == Shown(products, spools, change_logs, call.table, call.id)
            after == Shown(products', spools', change_logs', call.table, call.id)
        IN  \A f \in (DOMAIN before \cap fields) \ DOMAIN call.body : after[f] = before[f]

\* The fields a GET by id shows.
ShownFields == ProductFields \cup SpoolUpdateFields \cup {"id", "created_at", "updated_at", "change_logs"}

\* C15, as stated: a GET by id returns for every field the value of the latest call
\* that gave it, and a PUT leaves every field it does not mention unchanged.
ReadYourWrites == []ReadsLatest /\ [][PutKeeps(ShownFields)]_vars

\* C15, amended: a GET by id returns for every field the value of the latest call
\* that gave it, and a PUT leaves unchanged every field it does not mention but
\* updated_at, which it sets to the time of the call, and change_logs, which gains
\* an entry when the status or the location changes.
ReadYourWritesButUpdatedAt ==
    []ReadsLatest /\ [][PutKeeps(ShownFields \ {"updated_at", "change_logs"})]_vars

\* The spool of the test was created, a PUT gave it the status used_up alone, and
\* the GET shows that status with the vendor, the price and the location of the
\* creation.
UsedUpSpoolRead ==
    /\ upload.endpoint = "get_spool_with_history" /\ response.status = 200
    /\ Len(ledger) = 2
    /\ ledger[1].op = "create" /\ ledger[1].table = "spool"
    /\ "vendor" \in DOMAIN ledger[1].body
    /\ ledger[2] = Call("update", "spool", 1, [status |-> "used_up"])
    /\ response.body.id = 1
    /\ response.body.status = "used_up" /\ response.body.vendor = "Bambu"
    /\ response.body.price = [num |-> 255, den |-> 10]
    /\ response.body.storage_location = "Shelf A2"

\* C21: for a Bambu label whose only colour is a phrase of CHINESE_COLOR_MAP, the
\* colour returned is the English name of that phrase, for each of the 17 phrases.
GlyphColorsHonoured ==
    \A k \in 1..Len(CHINESE_COLOR_MAP) :
        (pc = "returned" /\ text = GlyphLabel(k)) =>
            result.color_name = CHINESE_COLOR_MAP[k][2]

\* No colour tier before the pattern of the brand finds a colour in the text.
NoEarlierColor(brand, t) ==
    /\ brand = "bambu" => FirstKeyIn(CHINESE_COLOR_MAP, t) = NULL
    /\ FirstKeyIn(color_corrections, Lower(t)) = NULL
    /\ CommonColorIn(t) = NULL
    /\ brand = "bambu" => (SpoolColorMatch(t) = NULL \/ ~InCommonColors(SpoolColorMatch(t)))

\* The names of the supported brands and of the materials, in small letters.
BrandAndMaterialNames ==
    {"esun", "sunlu", "bambu", "bambu lab", "jayo", "pla", "pla+", "petg", "abs", "tpu", "asa"}

\* C22: a color_name that the colour pattern of the brand produced is no name of a
\* supported brand and no material name, and has more than 3 characters.
BrandColorIsNoBrand ==
    (pc = "returned" /\ detect_brand(text) # NULL /\ NoEarlierColor(detect_brand(text), text)
        /\ result.color_name # NULL) =>
        /\ Len(result.color_name) > 3
        /\ Lower(result.color_name) \notin BrandAndMaterialNames

\* The literal names of the supported brands, each with the brand detect_brand
\* gives for it.
LiteralBrands ==
    {<<"Bambu Lab", "bambu">>, <<"eSUN", "esun">>, <<"JAYO", "jayo">>, <<"SUNLU", "sunlu">>}

\* The text holds the name of the brand b, in any case of letters, and of no other.
NamesOnly(t, b) ==
    /\ Contains(Lower(t), Lower(b[1]))
    /\ \A other \in LiteralBrands \ {b} : ~Contains(Lower(t), Lower(other[1]))

\* C29: a text that holds the literal name of exactly one supported brand is not
\* classified as another brand, whatever surrounds the name.
OnlyBrandNamedIsDetected ==
    \A b \in LiteralBrands :
        (pc = "returned" /\ NamesOnly(text, b)) =>
            (detect_brand(text) \in {b[2], NULL} /\ result.brand \in {BrandName(b[2]), NULL})

\* C23: on every sequence of lines the scanner of the Bambu Lab invoice ends with
\* a list of items: it raises nothing, and it reads no line beyond the last.
BambuScanNeverRaises == vendor = "bambu" => ~(ipc = "raised" /\ ierror = "IndexError")

\* ------------------------------------------ properties of the invoice scanners

\* The line is the one an item was emitted for: the product-name line its name
\* begins with (Bambu Lab), the price line of its price (Amazon).
EntryOf(item, line) ==
    IF vendor = "bambu"
    THEN IsProductLine(line) /\ StartsWith(item.product_line, line)
    ELSE IsPriceLine(line) /\ item.price = PriceOf(SubSeq(line, 2, Len(line)))

RECURSIVE InTextOrder(_, _)
\* The items from the k-th on have each a line of their own among the lines the
\* scan has passed, from the given line on, in the order of the items.
InTextOrder(k, from) ==
    IF k > Len(items) THEN TRUE
    ELSE LET upto == IF cursor < Len(lines) THEN cursor ELSE Len(lines)
             hits == {p \in from..upto : EntryOf(items[k], lines[p])}
         IN  hits # {} /\ InTextOrder(k + 1, Min(hits) + 1)

\* C24: in both scanners the cursor never moves backward and every pass of the
\* outer loop moves it forward, so that a scan of n lines, which starts at 0 and
\* goes on below n, makes at most n passes; the items emitted have each a
\* product-name line (Bambu Lab) or a price line (Amazon) of their own among the
\* lines passed, in the order of the text.
ScanAdvances ==
    /\ [][ipc = "scan" => (cursor' >= cursor /\ (ipc' = "scan" => cursor' > cursor))]_vars
    /\ [](ipc \in {"scan", "done", "raised"} => InTextOrder(1, 1))

\* Both scanners have ended a scan that emitted two items.
TwoItemsScanned ==
    /\ ipc = "done" /\ Len(items) = 2 /\ cursor >= Len(lines)
    /\ vendor = "bambu" => items[1].product_line = "PLA Basic" /\ items[2].product_line = "PETG HF"
    /\ vendor = "amazon" => items[1].brand = "Sunlu" /\ items[2].brand = "eSUN"

\* The lines of the entry whose product-name line is line p: those after it, up to
\* the next product-name line.
OwnLines(p) == {r \in (p + 1)..Len(lines) : \A x \in (p + 1)..r : ~IsProductLine(lines[x])}

\* The quantity, the price, the SKU and the colour of the item stand in the lines
\* of one entry that has the name of the item.
FromOwnEntry(item) ==
    \E p \in 1..Len(lines) :
        /\ IsProductLine(lines[p]) /\ StartsWith(item.product_line, lines[p])
        /\ item.price # NoPrice =>
              \E r \in OwnLines(p) :
                  /\ QtyPrice(lines[r]).found
                  /\ QtyPrice(lines[r]).price = item.price
                  /\ QtyPrice(lines[r]).qty = item.quantity
        /\ item.sku # NULL => \E r \in OwnLines(p) : SkuOf(lines[r]) = item.sku
        /\ \E r \in OwnLines(p) : Contains(lines[r], item.color_name)

\* C25: every field of an item of the Bambu Lab scanner is read from the lines
\* between the product-name line of the item and the next product-name line.
FieldsFromOwnEntry ==
    (vendor = "bambu" /\ ipc = "done") => \A k \in 1..Len(items) : FromOwnEntry(items[k])

\* C26: in the Amazon scanner a "Sold by:" marker has a part in at most one item:
\* there are no more items than markers.
OneItemPerSeller ==
    (vendor = "amazon" /\ ipc = "done") =>
        Len(items) <= Cardinality({k \in 1..Len(lines) :
                                      StartsWithAny(lines[k], <<"Sold by:", "Supplied by:">>)})

\* The header of the invoice holds a date of the form the parser looks for that is
\* no day of the calendar.
InvalidHeaderDate ==
    IF vendor = "bambu"
    THEN BambuInvoiceDate(full_text) # NULL /\ ~ParseIsoDate(BambuInvoiceDate(full_text)).ok
    ELSE /\ \E i \in 1..Len(full_text) : OrderPlacedAt(full_text, i).found
         /\ AmazonOrderDate(full_text) = NoDate

\* C27: a header date that is no day of the calendar leaves order_date absent and
\* fails no parse, for both vendors: the parse goes on to the items.
InvalidDateLeftAbsent ==
    (vendor \in {"bambu", "amazon"} /\ ipc # "header" /\ InvalidHeaderDate) =>
        /\ header.order_date = NoDate
        /\ ~(ipc = "raised" /\ ierror = "ValueError")

\* The change logs of the spool that tell a status, and the latest of them: the
\* one written last.
StatusLogs(id) == {k \in 1..Len(change_logs) :
                      change_logs[k].spool_id = id /\ change_logs[k].to_status # NULL}

\* C28: every stored spool has a change log that records its first status, and the
\* to_status of its latest change log with a status is the status it has.
EverySpoolLogged ==
    epc \in {"idle", "responded"} =>
        \A id \in 1..Len(spools) :
            /\ \E k \in StatusLogs(id) : change_logs[k].from_status = NULL
            /\ change_logs[Max(StatusLogs(id))].to_status = spools[id].status

\* ------------------------------------------ LabelParser._preprocess_basic

max_dimension == 2000

min_dimension == 800

\* The EXIF orientations; 5 to 8 are the transpositions and the quarter turns.
Orientations == 1..8

\* ImageOps.exif_transpose: the size of the image after the orientation of the
\* EXIF data has been applied.
exif_transpose(size, orientation) ==
    IF orientation \in 5..8
    THEN [width |-> size.height, height |-> size.width]
    ELSE size

\* _preprocess_basic from the size on: int(width * scale_factor) and
\* int(height * scale_factor), the scale factor being max_dimension over the longer
\* side when a side is above max_dimension, else the larger of min_dimension over
\* each side when a side is below min_dimension.
preprocess_basic(size) ==
    LET width == size.width
        height == size.height
    IN  IF width > max_dimension \/ height > max_dimension
        THEN [width |-> (width * max_dimension) \div Max({width, height}),
              height |-> (height * max_dimension) \div Max({width, height})]
        ELSE IF width < min_dimension \/ height < min_dimension
        THEN [width |-> (width * min_dimension) \div Min({width, height}),
              height |-> (height * min_dimension) \div Min({width, height})]
        ELSE size

\* The sides of the images: the limits of validate_image_file, the two dimensions
\* of _preprocess_basic and their neighbours, and sides between and beyond them.
ImageSides ==
    {MIN_IMAGE_DIMENSION, 400, min_dimension - 1, min_dimension, 1000, 1500, max_dimension,
     max_dimension + 1, 3000, 4000, MAX_IMAGE_DIMENSION}

\* An image that validate_image_file has accepted is in hand.
InitResize ==
    /\ pc = "preprocess"
    /\ tesseractAvailable = TRUE /\ imageValid = TRUE
    /\ sIdx = 1 /\ mIdx = 1 /\ best = NoBest /\ attempts = 0
    /\ last = NoLast /\ seen = NoneSeen
    /\ text = "" /\ strategy_used = NULL /\ result = NoResult
    /\ chineseColorMap = CHINESE_COLOR_MAP
    /\ first = NoFirst
    /\ \E width \in ImageSides, height \in ImageSides, orientation \in Orientations :
          img = [opened |-> [width |-> width, height |-> height],
                 orientation |-> orientation,
                 size |-> [width |-> width, height |-> height], stage |-> "opened"]
    /\ InvoiceIdle
    /\ ApiIdle

\* _preprocess_basic(img): the orientation is applied, then the image is resized.
PreprocessBasic ==
    /\ img.stage = "opened"
    /\ img' = [img EXCEPT !.size = preprocess_basic(exif_transpose(img.opened, img.orientation)),
                          !.stage = "basic"]
    /\ UNCHANGED <<pc, tesseractAvailable, imageValid, sIdx, mIdx, best, attempts, last, seen,
                   text, strategy_used, result, chineseColorMap, first, invoiceVars, apiVars>>

\* _preprocess_basic, applied to every image of ImageSides and Orientations.
SpecResize == InitResize /\ [][PreprocessBasic]_vars

\* C30: the image _preprocess_basic returns has no side above max_dimension, and
\* its sides are in the ratio of the sides of the oriented input, up to the
\* truncation of each side to an integer.
NormalizedWithinLimit ==
    img.stage = "basic" =>
        LET input == exif_transpose(img.opened, img.orientation)
            skew == img.size.width * input.height - img.size.height * input.width
        IN  /\ Max({img.size.width, img.size.height}) <= max_dimension
            /\ skew < Max({input.width, input.height})
            /\ -skew < Max({input.width, input.height})

====
